---- MODULE Spec2Model ----
(***************************************************************************)
(* Item assignment and rotation of joycn/SoundMonopoly                      *)
(* (src/src/db/operations.ts, src/src/db/database.ts).                      *)
(*                                                                         *)
(* Every request is an asynchronous call that suspends at each storage     *)
(* call (await); a step of the model is one storage call of one request.   *)
(* Three implementations are modelled and chosen at start-up:              *)
(*   "scan"    the document-store-only module, findOne = first in order    *)
(*             (operations.ts 24-165)                                      *)
(*   "mongodb" the document-store branch, random candidate                 *)
(*             (operations.ts 194-260, 348-366, 408-414, 450-466, 502-513) *)
(*   "sqlite"  the relational branch, ORDER BY RANDOM()                    *)
(*             (operations.ts 261-319, 367-387, 415-428, 467-480, 514-528) *)
(***************************************************************************)
EXTENDS Integers, Sequences, FiniteSets, TLC

\* ------------------------------------------------------------------ bounds
\* items handed to createItems in one run
MaxCreated == 1
\* calls started in one run whose calls interleave
MaxCalls == 2
\* events the AI collaborator returns for one request
MaxGenerated == 2

\* --------------------------------------------------------------- constants
\* request slots: at most two requests are in flight at one time
Procs == {1, 2}
Users == {"alice", "bob"}
\* BSON null / SQL NULL / a field that is absent
Null == "<null>"
Impls == {"scan", "mongodb", "sqlite"}

\* JSON values of a payload: a string or a number
Str(s) == [str |-> s]
Num(n) == [num |-> n]
\* punctuation token of a JSON text
Punct(s) == [p |-> s]

\* models/event.ts: eventSampleData; a payload is the ordered list of its
\* <<key, value>> members
eventSampleData ==
    << << <<"message", Str("Pay luxury tax")>>, <<"type", Str("chance")>>,
          <<"amount", Num(2400)>>, <<"baseAmount", Num(2000)>> >>,
       << <<"message", Str("Property auction")>>, <<"type", Str("auction")>>,
          <<"amount", Num(1600)>>, <<"baseAmount", Num(2000)>>,
          <<"property", Str("Park Place")>> >>,
       << <<"message", Str("Bank error in your favor")>>,
          <<"type", Str("community_chest")>>,
          <<"amount", Num(1200)>>, <<"baseAmount", Num(1000)>> >> >>

\* models/question.ts: questionSampleData
questionSampleData ==
    << << <<"message", Str("Question 1")>> >>,
       << <<"message", Str("Question 2")>> >>,
       << <<"message", Str("Question 3")>> >> >>

\* config/collections.ts: COLLECTIONS
COLLECTIONS ==
    [events |-> [name |-> "events", sampleData |-> eventSampleData],
     questions |-> [name |-> "questions", sampleData |-> questionSampleData]]

Collections == {"events", "questions"}

SampleOf(c) == IF c = "events" THEN COLLECTIONS.events.sampleData
               ELSE COLLECTIONS.questions.sampleData

\* payloads a createItems caller submits
NewPayloads == { << <<"message", Str("x")>> >> }

\* ------------------------------------------------------------------- JSON
\* JSON.stringify of a payload: the token list of the text
RECURSIVE StringifyMembers(_, _)
StringifyMembers(payload, i) ==
    IF i > Len(payload) THEN <<>>
    ELSE (IF i > 1 THEN <<Punct(",")>> ELSE <<>>)
         \o <<Str(payload[i][1]), Punct(":"), payload[i][2]>>
         \o StringifyMembers(payload, i + 1)

JSONStringify(payload) ==
    <<Punct("{")>> \o StringifyMembers(payload, 1) \o <<Punct("}")>>

\* JSON.parse of a text produced above: members are read back in order
RECURSIVE ParseMembers(_, _)
ParseMembers(text, i) ==
    IF i + 2 > Len(text) - 1 THEN <<>>
    ELSE << <<text[i].str, text[i + 2]>> >> \o ParseMembers(text, i + 4)

JSONParse(text) == ParseMembers(text, 2)


\* ------------------------------------------------------------------ state
VARIABLES
    impl,       \* which implementation serves the requests
    serial,     \* TRUE: every call runs to completion before the next starts
    store,      \* collection name -> list of items, in store order
    nextId,     \* collection name -> next fresh identifier
    sampleIds,  \* collection name -> the _id values the document driver has
                \* written into the shared sample objects (<<>>: none yet)
    scope,      \* the collections this run declares and addresses
    created,    \* items handed to createItems so far
    calls,      \* calls started so far in a run whose calls interleave
    hist,       \* history of a serial run, per collection: who has called
                \* acquire since the last other call, and whether that user
                \* has since held every item; which items those calls have
                \* returned since the last reset and how many returns that
                \* took; whether the first of them found every item unused,
                \* and whether one of them has reset the collection (the
                \* returns are recorded in tracked runs only)
    proc,       \* request slot -> the call it runs, with its local variables
    client,     \* the database client: whether its configuration names the
                \* connection parameter, whether it has been constructed,
                \* whether it holds an open connection (this.db /
                \* isConnectedFlag), and whether a connect() on it has run
                \* to its end, tables created, since the last disconnect()
    boot,       \* where the process is: a program using the client
                \* directly ("library"), or the server's startup
    log,        \* the last two calls made on the client, with their outcome
    bot,        \* whether the AI collaborator (MonopolyChatBot) has been
                \* initialized
    twin,       \* in a run that puts every call to both store branches:
                \* the call, result and collection of the first branch
    chatBot     \* the MonopolyChatBot class followed on its own: its static
                \* instance, the objects constructed with their fields, and
                \* the last call made on it with its outcome

vars ==
    <<impl, serial, scope, store, nextId, sampleIds, created, calls, hist,
      proc, client, boot, log, bot, twin, chatBot>>

Documents(i) == i \in {"scan", "mongodb"}

\* models/base.ts: BaseItem; db/database.ts: the columns of a table
NewItem(id, data, createdBy, createdAt) ==
    [id |-> id, data |-> data, used |-> FALSE, assignedTo |-> Null,
     createdBy |-> createdBy, createdAt |-> createdAt]

NoItem == [none |-> TRUE]

\* history: no acquire yet / acquires of several users
Many == "<many>"
NoHist ==
    [who |-> Null, full |-> FALSE, track |-> FALSE, given |-> {}, n |-> 0,
     fresh |-> FALSE, reset |-> FALSE]
\* no other call has written the item this call has selected
NoRace == [user |-> Null, data |-> <<>>]

\* the value a call has produced so far
Pending == [kind |-> "pending", data |-> <<>>, n |-> 0, ids |-> <<>>]
\* { success: true, data: item.data }
Success(payload) == [kind |-> "ok", data |-> payload, n |-> 0, ids |-> <<>>]
\* { success: false, data: { error: `No ${collectionName} available` } }
NoneAvailable(c) ==
    [kind |-> "none", data |-> << <<"error", Str(c)>> >>, n |-> 0, ids |-> <<>>]
\* { success: true, data: { insertedCount, insertedIds } } and the counts of
\* markAllItemsAsUsed / deleteItemsByUser
Counted(n, ids) == [kind |-> "count", data |-> <<>>, n |-> n, ids |-> ids]
\* the catch block logs and rethrows
Thrown == [kind |-> "thrown", data |-> <<>>, n |-> 0, ids |-> <<>>]
\* createGameEvent threw 'MonopolyChatBot not initialized'
Unavailable == [kind |-> "unavailable", data |-> <<>>, n |-> 0, ids |-> <<>>]
\* createGameEvent returned success: false
Rejected == [kind |-> "rejected", data |-> <<>>, n |-> 0, ids |-> <<>>]

\* no call is being compared
NoTwin ==
    [on |-> FALSE, op |-> "-", user |-> Null, arg |-> <<>>, choice |-> 0,
     kind |-> "-", data |-> <<>>, n |-> 0, post |-> <<>>]

\* services/openai.ts: no call made on the class yet
NoOp ==
    [op |-> "-", obj |-> 0, arg |-> <<>>, out |-> "-", api |-> FALSE,
     pre |-> <<>>]

\* services/openai.ts: the class as loaded, private static instance = null
\* (objects are numbered from 1; 0 is the null reference)
NoChatBot ==
    [instance |-> 0, objects |-> <<>>, handed |-> {}, inited |-> {},
     last |-> NoOp]

InitTask == [c \in Collections |-> [st |-> "idle", i |-> 0, pre |-> <<>>]]

\* the client of a server that has started: constructed by
\* createDatabaseClient and connected by initializeServices
Connected == [param |-> TRUE, made |-> TRUE, db |-> TRUE, tables |-> TRUE]

\* no client has been constructed
NoClient ==
    [param |-> FALSE, made |-> FALSE, db |-> FALSE, tables |-> FALSE]

Idle ==
    [pc |-> "idle", op |-> "-", coll |-> "-", user |-> Null, arg |-> <<>>,
     i |-> 0, sel |-> NoItem, res |-> Pending, task |-> InitTask,
     pre |-> <<>>, nReset |-> 0, ids |-> <<>>,
     solo |-> NoHist, raced |-> NoRace, gen |-> "-", deleted |-> 0]

Init ==
    /\ impl \in Impls
    /\ serial \in BOOLEAN
    /\ scope \in SUBSET Collections
    /\ store = [c \in Collections |-> <<>>]
    /\ nextId = [c \in Collections |-> 1]
    /\ sampleIds = [c \in Collections |-> <<>>]
    /\ created = 0
    /\ calls = 0
    /\ hist = [c \in Collections |-> NoHist]
    /\ proc = [p \in Procs |-> Idle]
    /\ client = Connected
    /\ boot = "listening"
    /\ log = <<>>
    /\ bot = TRUE
    /\ twin = NoTwin
    /\ chatBot = NoChatBot

\* ---------------------------------------------------------------- helpers
Ids(items) == {items[k].id : k \in DOMAIN items}

FreshIds(c, n) == [k \in 1..n |-> nextId[c] + k - 1]

\* the text or document stored in the data column / field
Stored(payload) == IF impl = "sqlite" THEN JSONStringify(payload) ELSE payload

\* faulty variant: the relational branch returns the stored text unparsed
RetrievedRaw(data) == data

\* item.data (document store) or JSON.parse(item.data) (relational store)
Retrieved(data) == IF impl = "sqlite" THEN JSONParse(data) ELSE data

\* faulty variant: the seeded item is inserted with used = true
SeedItemUsed(id, payload) ==
    [NewItem(id, Stored(payload), Null,
             IF impl = "sqlite" THEN "now" ELSE Null) EXCEPT !.used = TRUE]

\* seeded rows: the relational table fills createdAt by its column default
SeedItem(id, payload) ==
    NewItem(id, Stored(payload), Null,
            IF impl = "sqlite" THEN "now" ELSE Null)

\* { used: false, assignedTo: { $ne: userId } }: a missing or null field
\* is not equal to userId
MongoCandidate(it, u) == it.used = FALSE /\ it.assignedTo # u

\* WHERE used = FALSE AND (assignedTo IS NULL OR assignedTo != ?):
\* a comparison with NULL is not true
SqlCandidate(it, u) ==
    /\ it.used = FALSE
    /\ \/ it.assignedTo = Null
       \/ (it.assignedTo # Null /\ it.assignedTo # u)

\* faulty variant: the first pass carries no filter, like the second
NoFilter(it, u) == TRUE

Candidate(it, u) ==
    IF impl = "sqlite" THEN SqlCandidate(it, u) ELSE MongoCandidate(it, u)

Candidates(items, u) == SelectSeq(items, LAMBDA it : Candidate(it, u))

\* faulty variant: the last match in store order
SelectLast(items) == {items[Len(items)]}

\* findOne takes the first match in store order; the later generation
\* takes items[floor(random * length)] or ORDER BY RANDOM() LIMIT 1
Selection(items) ==
    IF impl = "scan" THEN {items[1]} ELSE {items[k] : k \in DOMAIN items}

\* what the call reads of the selected item afterwards: its id and data
Read(it) == [id |-> it.id, data |-> it.data]

\* faulty variant: the assignment has no WHERE clause / an empty filter
AssignAll(items, id, u) ==
    [k \in DOMAIN items |-> [items[k] EXCEPT !.used = TRUE, !.assignedTo = u]]

\* faulty variant: the assignment claims the item only while it is unused
AssignIfUnused(items, id, u) ==
    [k \in DOMAIN items |->
        IF items[k].id = id /\ ~items[k].used
        THEN [items[k] EXCEPT !.used = TRUE, !.assignedTo = u]
        ELSE items[k]]

\* faulty variant: the assignment sets assignedTo and leaves used
AssignOwnerOnly(items, id, u) ==
    [k \in DOMAIN items |->
        IF items[k].id = id THEN [items[k] EXCEPT !.assignedTo = u]
        ELSE items[k]]

\* faulty variant: the assignment sets used and leaves assignedTo
MarkOne(items, id, u) ==
    [k \in DOMAIN items |->
        IF items[k].id = id THEN [items[k] EXCEPT !.used = TRUE]
        ELSE items[k]]

\* $set: { used: true, assignedTo: userId } on { _id: item._id } /
\* UPDATE .. SET used = TRUE, assignedTo = ? WHERE id = ?
AssignTo(items, id, u) ==
    [k \in DOMAIN items |->
        IF items[k].id = id
        THEN [items[k] EXCEPT !.used = TRUE, !.assignedTo = u]
        ELSE items[k]]

\* faulty variant: the reset empties the collection
ClearAll(items) == <<>>

\* faulty variant: the reset clears used and leaves assignedTo
ResetUsedOnly(items) ==
    [k \in DOMAIN items |-> [items[k] EXCEPT !.used = FALSE]]

\* updateMany({}, $set: { used: false, assignedTo: undefined }) (undefined
\* is written as null) / UPDATE .. SET used = FALSE, assignedTo = NULL
ResetAll(items) ==
    [k \in DOMAIN items |->
        [items[k] EXCEPT !.used = FALSE, !.assignedTo = Null]]

\* faulty variant: marking an item used also stamps its createdAt
MarkStamped(items) ==
    [k \in DOMAIN items |->
        IF items[k].used = FALSE
        THEN [items[k] EXCEPT !.used = TRUE, !.createdAt = "now"]
        ELSE items[k]]

\* updateMany({ used: false }, $set: { used: true }) /
\* UPDATE .. SET used = TRUE WHERE used = FALSE
MarkUsed(items) ==
    [k \in DOMAIN items |->
        IF items[k].used = FALSE THEN [items[k] EXCEPT !.used = TRUE]
        ELSE items[k]]

\* faulty variant: the count is of every item, not of the unused ones
AllItems(items) == items

Unused(items) == SelectSeq(items, LAMBDA it : it.used = FALSE)

\* faulty variant: the delete spares the creator's items that are in use
NotCreatedUnused(items, u) ==
    SelectSeq(items, LAMBDA it : it.createdBy # u \/ it.used)

\* deleteMany({ createdBy: userId }) / DELETE .. WHERE createdBy = ?
CreatedBy(items, u) == SelectSeq(items, LAMBDA it : it.createdBy = u)
NotCreatedBy(items, u) == SelectSeq(items, LAMBDA it : it.createdBy # u)

\* the request slot a new call takes: slots are anonymous, so the lowest
\* free one
FreeSlot(p) ==
    /\ boot = "listening"
    /\ ~serial => calls < MaxCalls
    /\ proc[p].pc = "idle"
    /\ \A q \in Procs : q < p => proc[q].pc # "idle"
    /\ serial => \A q \in Procs : proc[q].pc = "idle"

\* history of serial runs: a call other than acquire starts on c
Forgotten(c) == [NoHist EXCEPT !.track = hist[c].track]
Other(c) ==
    hist' = IF serial THEN [hist EXCEPT ![c] = Forgotten(c)] ELSE hist

\* history of serial runs: user u calls acquire on c
Asked(c, u) ==
    [hist[c] EXCEPT
        !.who = IF hist[c].who \in {Null, u} THEN u ELSE Many,
        !.full = hist[c].who = u /\ hist[c].full,
        !.fresh = IF hist[c].who = Null
                  THEN /\ hist[c].track
                       /\ \A k \in DOMAIN store[c] : ~store[c][k].used
                  ELSE hist[c].fresh]

\* history of serial runs: the acquire call me returns the item it
\* selected, leaving the collection as items
Returned(c, me, items) ==
    [hist[c] EXCEPT
        !.full = IF /\ hist[c].who = me.user
                    /\ \A k \in DOMAIN items :
                          items[k].used /\ items[k].assignedTo = me.user
                 THEN TRUE ELSE @,
        !.given = IF ~hist[c].track THEN @
                  ELSE IF me.nReset = 1 THEN {me.sel.id}
                  ELSE @ \cup {me.sel.id},
        !.n = IF ~hist[c].track THEN @
              ELSE IF me.nReset = 1 THEN 1
              ELSE IF @ > Len(items) THEN @ ELSE @ + 1,
        !.reset = @ \/ (hist[c].track /\ me.nReset = 1)]

\* the local variables of a call that starts on collection c
Call(op, c, u, arg) ==
    [Idle EXCEPT !.op = op, !.coll = c, !.user = u, !.arg = arg,
                 !.pre = IF serial THEN store[c] ELSE <<>>,
                 !.solo = IF serial /\ op = "acquire"
                          THEN Asked(c, u) ELSE NoHist]

\* a call that has produced its result returns it in the same turn of the
\* event loop, before any other storage call completes
Settled == \A q \in Procs : proc[q].pc # "done"

Step(p, fields) == Settled /\ proc' = [proc EXCEPT ![p] = fields]

Aside == <<twin, chatBot>>

Config == <<impl, serial, scope, client, log, bot, Aside>>

\* a call starts in slot p with these local variables
Begin(p, fields) ==
    /\ FreeSlot(p)
    /\ Step(p, fields)
    /\ calls' = IF serial THEN calls ELSE calls + 1


\* ------------------------------------------------- seeding (both callers)
\* collection.insertMany(sampleData): the driver writes a fresh _id into
\* every document that has none, and the sample objects are the shared ones
\* of COLLECTIONS, so a later insertMany of them carries the same _id values
\* and fails on the unique _id index; an empty batch is refused
InsertManyFails(c, sample) ==
    \/ sample = <<>>
    \/ /\ sampleIds[c] # <<>>
       /\ \E k \in DOMAIN sampleIds[c] : sampleIds[c][k] \in Ids(store[c])

InsertManySample(c, sample) ==
    LET fresh == sampleIds[c] = <<>>
        ids == IF fresh THEN FreshIds(c, Len(sample)) ELSE sampleIds[c]
    IN  /\ store' = [store EXCEPT ![c] =
                @ \o [k \in DOMAIN sample |-> SeedItem(ids[k], sample[k])]]
        /\ sampleIds' = [sampleIds EXCEPT ![c] = ids]
        /\ nextId' = [nextId EXCEPT ![c] =
                IF fresh THEN @ + Len(sample) ELSE @]

\* stmt.run(JSON.stringify(item.data), false): one row, AUTOINCREMENT id
InsertRow(c, payload) ==
    /\ store' = [store EXCEPT ![c] =
            Append(@, SeedItem(nextId[c], payload))]
    /\ nextId' = [nextId EXCEPT ![c] = @ + 1]
    /\ UNCHANGED sampleIds

\* ------------------------------------------------ getItemFromCollection
\* the sample list a caller passes: the configured one, or none
SampleArgs(c) == {SampleOf(c), <<>>}

\* faulty variant: the call seeds whatever the count is
AcquireCountIgnored(p, c, u, sample) ==
    /\ Begin(p, [Call("acquire", c, u, sample) EXCEPT
                    !.pc = IF impl = "sqlite" /\ sample = <<>>
                           THEN "find" ELSE "seed",
                    !.i = 1])
    /\ hist' = IF serial THEN [hist EXCEPT ![c] = Asked(c, u)] ELSE hist
    /\ UNCHANGED <<Config, boot, store, nextId, sampleIds, created>>

\* the call up to its first storage call: countDocuments() / SELECT
\* COUNT(*); db.prepare touches no row. The sample list is read again only
\* when the count is zero.
AcquireCount(p, c, u, sample) ==
    /\ Begin(p, IF Len(store[c]) # 0
                THEN [Call("acquire", c, u, <<>>) EXCEPT !.pc = "find"]
                ELSE [Call("acquire", c, u, sample) EXCEPT
                        !.pc = IF impl = "sqlite" /\ sample = <<>>
                               THEN "find" ELSE "seed",
                        !.i = 1])
    /\ hist' = IF serial THEN [hist EXCEPT ![c] = Asked(c, u)] ELSE hist
    /\ UNCHANGED <<Config, boot, store, nextId, sampleIds, created>>

AcquireSeed(p) ==
    LET me == proc[p] IN
    /\ me.op = "acquire" /\ me.pc = "seed"
    /\ IF impl = "sqlite"
       THEN /\ InsertRow(me.coll, me.arg[me.i])
            /\ Step(p, [me EXCEPT
                    !.pc = IF me.i = Len(me.arg) THEN "find" ELSE "seed",
                    !.i = me.i + 1])
       ELSE IF InsertManyFails(me.coll, me.arg)
       THEN /\ Step(p, [me EXCEPT !.pc = "done", !.res = Thrown])
            /\ UNCHANGED <<store, nextId, sampleIds>>
       ELSE /\ InsertManySample(me.coll, me.arg)
            /\ Step(p, [me EXCEPT !.pc = "find"])
    /\ UNCHANGED <<Config, boot, hist, created, calls>>

\* faulty variant: the first pass reads every item not assigned to this
\* user, used or not
AcquireFindUnowned(p) ==
    LET me == proc[p]
        items == SelectSeq(store[me.coll],
                           LAMBDA it : it.assignedTo # me.user)
    IN
    /\ me.op = "acquire" /\ me.pc = "find"
    /\ IF items # <<>>
       THEN \E it \in Selection(items) :
                Step(p, [me EXCEPT !.pc = "update", !.sel = Read(it)])
       ELSE Step(p, [me EXCEPT !.pc = "reset"])
    /\ UNCHANGED <<Config, boot, hist, store, nextId, sampleIds, created,
                   calls>>

\* first pass: unused items not assigned to this user
AcquireFind(p) ==
    LET me == proc[p]
        items == Candidates(store[me.coll], me.user)
    IN
    /\ me.op = "acquire" /\ me.pc = "find"
    /\ IF items # <<>>
       THEN \E it \in Selection(items) :
                Step(p, [me EXCEPT !.pc = "update", !.sel = Read(it)])
       ELSE Step(p, [me EXCEPT !.pc = "reset"])
    /\ UNCHANGED <<Config, boot, hist, store, nextId, sampleIds, created,
                   calls>>

\* the assignment write and the return of item.data
Assign(p) ==
    LET me == proc[p]
        c == me.coll
        res == Success(Retrieved(me.sel.data))
        holding(q) == /\ q # p
                      /\ proc[q].op = "acquire"
                      /\ proc[q].pc \in {"update", "update2"}
                      /\ proc[q].coll = c
                      /\ proc[q].sel.id = me.sel.id
    IN
    /\ Settled
    /\ store' = [store EXCEPT ![c] = AssignTo(@, me.sel.id, me.user)]
    /\ proc' = [q \in Procs |->
            IF q = p THEN [me EXCEPT !.pc = "done", !.res = res]
            ELSE IF holding(q)
            THEN [proc[q] EXCEPT
                    !.raced = [user |-> me.user, data |-> res.data]]
            ELSE proc[q]]
    /\ hist' = IF serial
               THEN [hist EXCEPT ![c] = Returned(c, me, store'[c])]
               ELSE hist
    /\ UNCHANGED <<Config, boot, nextId, sampleIds, created, calls>>

AcquireUpdate(p) ==
    /\ proc[p].op = "acquire" /\ proc[p].pc = "update"
    /\ Assign(p)

\* faulty variant: the reset statement names no collection
AcquireResetEverywhere(p) ==
    LET me == proc[p] IN
    /\ me.op = "acquire" /\ me.pc = "reset"
    /\ store' = [c \in Collections |-> ResetAll(store[c])]
    /\ Step(p, [me EXCEPT !.pc = "find2", !.nReset = me.nReset + 1])
    /\ UNCHANGED <<Config, boot, hist, nextId, sampleIds, created, calls>>

\* no candidate: reset every item of the collection
AcquireReset(p) ==
    LET me == proc[p] IN
    /\ me.op = "acquire" /\ me.pc = "reset"
    /\ store' = [store EXCEPT ![me.coll] = ResetAll(@)]
    /\ Step(p, [me EXCEPT !.pc = "find2", !.nReset = me.nReset + 1])
    /\ UNCHANGED <<Config, boot, hist, nextId, sampleIds, created, calls>>

\* faulty variant: the second pass leaves out what the user held when the
\* call started
AcquireFind2Excluding(p) ==
    LET me == proc[p]
        held == {me.pre[k].id : k \in {j \in DOMAIN me.pre :
                    me.pre[j].used /\ me.pre[j].assignedTo = me.user}}
        items == SelectSeq(store[me.coll], LAMBDA it : it.id \notin held)
    IN
    /\ me.op = "acquire" /\ me.pc = "find2"
    /\ IF items # <<>>
       THEN \E it \in Selection(items) :
                Step(p, [me EXCEPT !.pc = "update2", !.sel = Read(it)])
       ELSE Step(p, [me EXCEPT !.pc = "done",
                               !.res = NoneAvailable(me.coll)])
    /\ UNCHANGED <<Config, boot, hist, store, nextId, sampleIds, created,
                   calls>>

\* faulty variant: a second pass that finds nothing resets once more
AcquireFind2Retry(p) ==
    LET me == proc[p]
        items == store[me.coll]
    IN
    /\ me.op = "acquire" /\ me.pc = "find2"
    /\ IF items # <<>>
       THEN \E it \in Selection(items) :
                Step(p, [me EXCEPT !.pc = "update2", !.sel = Read(it)])
       ELSE IF me.nReset < 2
       THEN Step(p, [me EXCEPT !.pc = "reset"])
       ELSE Step(p, [me EXCEPT !.pc = "done",
                               !.res = NoneAvailable(me.coll)])
    /\ UNCHANGED <<Config, boot, hist, store, nextId, sampleIds, created,
                   calls>>

\* second pass: findOne({}) / find({}) / SELECT * .. ORDER BY RANDOM()
AcquireFind2(p) ==
    LET me == proc[p]
        items == store[me.coll]
    IN
    /\ me.op = "acquire" /\ me.pc = "find2"
    /\ IF items # <<>>
       THEN \E it \in Selection(items) :
                Step(p, [me EXCEPT !.pc = "update2", !.sel = Read(it)])
       ELSE Step(p, [me EXCEPT !.pc = "done",
                               !.res = NoneAvailable(me.coll)])
    /\ UNCHANGED <<Config, boot, hist, store, nextId, sampleIds, created,
                   calls>>

AcquireUpdate2(p) ==
    /\ proc[p].op = "acquire" /\ proc[p].pc = "update2"
    /\ Assign(p)

\* ------------------------------------------------------------ createItems
\* the item lists a caller submits
RECURSIVE Batches(_)
Batches(n) ==
    IF n = 0 THEN {<<>>}
    ELSE Batches(n - 1) \cup
         {Append(b, pl) : b \in {x \in Batches(n - 1) : Len(x) = n - 1},
                          pl \in NewPayloads}

\* within what the run may still create
ItemArgs == Batches(MaxCreated - created)

\* used: false, assignedTo: undefined, createdBy: userId, createdAt: now
CreatedItem(id, payload, u) == NewItem(id, Stored(payload), u, "now")

\* the call up to its first storage call (getCollection touches no item);
\* the relational loop over an empty list makes none
CreateItems(p, c, u, items) ==
    /\ created' = created + Len(items)
    /\ Begin(p, IF impl = "sqlite" /\ items = <<>>
                THEN [Call("create", c, u, items) EXCEPT
                        !.pc = "done", !.res = Counted(0, <<>>)]
                ELSE [Call("create", c, u, items) EXCEPT
                        !.pc = "insert", !.i = 1])
    /\ Other(c)
    /\ UNCHANGED <<Config, boot, store, nextId, sampleIds>>

\* INSERT INTO .. (data, used, createdBy, createdAt): row i of the list
CreateRow(p) ==
    LET me == proc[p]
        c == me.coll
        ids == Append(me.ids, nextId[c])
        last == me.i = Len(me.arg)
    IN
    /\ store' = [store EXCEPT ![c] =
            Append(@, CreatedItem(nextId[c], me.arg[me.i], me.user))]
    /\ nextId' = [nextId EXCEPT ![c] = @ + 1]
    /\ Step(p, [me EXCEPT
            !.pc = IF last THEN "done" ELSE "insert",
            !.i = me.i + 1,
            !.ids = ids,
            !.res = IF last THEN Counted(Len(ids), ids) ELSE Pending])

\* insertMany(itemsToInsert): the whole list in one call; an empty batch
\* is refused
CreateMany(p) ==
    LET me == proc[p]
        c == me.coll
        ids == FreshIds(c, Len(me.arg))
    IN
    IF me.arg = <<>>
    THEN /\ Step(p, [me EXCEPT !.pc = "done", !.res = Thrown])
         /\ UNCHANGED <<store, nextId>>
    ELSE /\ store' = [store EXCEPT ![c] =
                @ \o [k \in DOMAIN me.arg |->
                        CreatedItem(ids[k], me.arg[k], me.user)]]
         /\ nextId' = [nextId EXCEPT ![c] = @ + Len(me.arg)]
         /\ Step(p, [me EXCEPT !.pc = "done", !.ids = ids,
                               !.res = Counted(Len(ids), ids)])

CreateInsert(p) ==
    /\ proc[p].op = "create" /\ proc[p].pc = "insert"
    /\ IF impl = "sqlite" THEN CreateRow(p) ELSE CreateMany(p)
    /\ UNCHANGED <<Config, boot, hist, sampleIds, created, calls>>

\* ----------------------------------------------------- markAllItemsAsUsed
MarkAll(p, c) ==
    /\ impl # "scan"
    /\ store' = [store EXCEPT ![c] = MarkUsed(@)]
    /\ Begin(p, [Call("markAll", c, Null, <<>>) EXCEPT
            !.pc = "done",
            !.res = Counted(Len(Unused(store[c])), <<>>)])
    /\ Other(c)
    /\ UNCHANGED <<Config, boot, nextId, sampleIds, created>>

\* ------------------------------------------------------ deleteItemsByUser
DeleteByUser(p, c, u) ==
    /\ impl # "scan"
    /\ store' = [store EXCEPT ![c] = NotCreatedBy(@, u)]
    /\ Begin(p, [Call("delete", c, u, <<>>) EXCEPT
            !.pc = "done",
            !.res = Counted(Len(CreatedBy(store[c], u)), <<>>)])
    /\ Other(c)
    /\ UNCHANGED <<Config, boot, nextId, sampleIds, created>>

\* -------------------------------------------------- initializeCollections
\* Promise.all over the collections handed in: one task per collection,
\* the tasks interleave at their storage calls
StartInit(p) ==
    /\ Begin(p, [Idle EXCEPT
            !.pc = "init", !.op = "init",
            !.task = [c \in Collections |->
                        IF c \in scope
                        THEN [st |-> "count", i |-> 1, pre |-> <<>>]
                        ELSE InitTask[c]]])
    /\ hist' = IF serial
               THEN [c \in Collections |->
                       IF c \in scope THEN Forgotten(c) ELSE hist[c]]
               ELSE hist
    /\ UNCHANGED <<Config, boot, store, nextId, sampleIds, created>>

\* faulty variant: the task seeds without looking at the count
InitCountSkipped(p, c) ==
    LET me == proc[p] IN
    /\ me.op = "init" /\ me.pc = "init" /\ me.task[c].st = "count"
    /\ Step(p, [me EXCEPT !.task[c].st = "seed", !.task[c].pre = store[c]])
    /\ UNCHANGED <<Config, boot, hist, store, nextId, sampleIds, created,
                   calls>>

\* faulty variant: the task seeds when the count is not zero
InitCountInverted(p, c) ==
    LET me == proc[p] IN
    /\ me.op = "init" /\ me.pc = "init" /\ me.task[c].st = "count"
    /\ Step(p, [me EXCEPT
            !.task[c].st = IF Len(store[c]) # 0 THEN "seed" ELSE "done",
            !.task[c].pre = store[c]])
    /\ UNCHANGED <<Config, boot, hist, store, nextId, sampleIds, created,
                   calls>>

InitCount(p, c) ==
    LET me == proc[p] IN
    /\ me.op = "init" /\ me.pc = "init" /\ me.task[c].st = "count"
    /\ Step(p, [me EXCEPT
            !.task[c].st = IF Len(store[c]) = 0 THEN "seed" ELSE "done",
            !.task[c].pre = store[c]])
    /\ UNCHANGED <<Config, boot, hist, store, nextId, sampleIds, created,
                   calls>>

InitSeed(p, c) ==
    LET me == proc[p]
        sample == SampleOf(c)
        i == me.task[c].i
    IN
    /\ me.op = "init" /\ me.pc = "init" /\ me.task[c].st = "seed"
    /\ IF impl = "sqlite"
       THEN /\ InsertRow(c, sample[i])
            /\ Step(p, [me EXCEPT
                    !.task[c].st = IF i = Len(sample) THEN "done" ELSE "seed",
                    !.task[c].i = i + 1])
       ELSE IF InsertManyFails(c, sample)
       THEN /\ Step(p, [me EXCEPT !.task[c].st = "failed"])
            /\ UNCHANGED <<store, nextId, sampleIds>>
       ELSE /\ InsertManySample(c, sample)
            /\ Step(p, [me EXCEPT !.task[c].st = "done"])
    /\ UNCHANGED <<Config, boot, hist, created, calls>>

\* Promise.all settles: resolved when every task has, rejected (logged and
\* rethrown) when one has failed
InitSettle(p) ==
    LET me == proc[p] IN
    /\ me.op = "init" /\ me.pc = "init"
    /\ \A c \in scope : me.task[c].st \in {"done", "failed"}
    /\ Step(p, [me EXCEPT
            !.pc = "done",
            !.res = IF \E c \in scope : me.task[c].st = "failed"
                    THEN Thrown ELSE Counted(0, <<>>)])
    /\ UNCHANGED <<Config, boot, hist, store, nextId, sampleIds, created,
                   calls>>

\* ------------------------------------------------------- request boundary
\* res.json(result), or in the handler's catch res.status(500).json({ error })
Response(res) ==
    CASE res.kind = "thrown" ->
            [status |-> 500, error |-> TRUE, success |-> FALSE]
      [] res.kind = "unavailable" ->
            [status |-> 503, error |-> TRUE, success |-> FALSE]
      [] res.kind = "rejected" ->
            [status |-> 400, error |-> TRUE, success |-> FALSE]
      [] OTHER ->
            [status |-> 200, error |-> FALSE, success |-> res.kind # "none"]

\* faulty variant: the handler has no catch and the rejection ends the
\* process
Unhandled(res) == IF res.kind = "thrown" THEN "exited" ELSE "listening"

\* every outcome of the operation is answered inside the handler's
\* try/catch, so the process goes on serving requests
Handled(res) == "listening"

\* ------------------------------------------------------------------- next
\* the caller has taken the result; the slot is free again
Return(p) ==
    /\ proc[p].pc = "done"
    /\ proc' = [proc EXCEPT ![p] = Idle]
    /\ boot' = Handled(proc[p].res)
    /\ UNCHANGED <<Config, hist, store, nextId, sampleIds, created, calls>>

Acquire(p) ==
    \E c \in scope, u \in Users :
        \E sample \in SampleArgs(c) : AcquireCount(p, c, u, sample)

Create(p) ==
    \E c \in scope, u \in Users :
        \E items \in ItemArgs : CreateItems(p, c, u, items)

Next ==
    \E p \in Procs :
        \/ Acquire(p)
        \/ AcquireSeed(p)
        \/ AcquireFind(p)
        \/ AcquireUpdate(p)
        \/ AcquireReset(p)
        \/ AcquireFind2(p)
        \/ AcquireUpdate2(p)
        \/ Create(p)
        \/ CreateInsert(p)
        \/ \E c \in scope : MarkAll(p, c)
        \/ \E c \in scope, u \in Users : DeleteByUser(p, c, u)
        \/ StartInit(p)
        \/ \E c \in scope : InitCount(p, c)
        \/ \E c \in scope : InitSeed(p, c)
        \/ InitSettle(p)
        \/ Return(p)

\* requests interleave at their storage calls
ConcurrentInit == Init /\ serial = FALSE /\ Cardinality(scope) = 1
Spec == ConcurrentInit /\ [][Next]_vars

\* what a call in slot p does once its pending storage call has completed,
\* up to handing its result to the caller
Continue(p) ==
    \/ AcquireSeed(p)
    \/ AcquireFind(p)
    \/ AcquireUpdate(p)
    \/ AcquireReset(p)
    \/ AcquireFind2(p)
    \/ AcquireUpdate2(p)
    \/ CreateInsert(p)
    \/ \E c \in scope : InitCount(p, c)
    \/ \E c \in scope : InitSeed(p, c)
    \/ InitSettle(p)
    \/ Return(p)

\* requests interleave on one collection; every storage call completes and
\* the event loop does not idle while the continuation of a completed call
\* is ready to run
LiveInit == ConcurrentInit /\ scope = {"questions"}
LiveSpec ==
    LiveInit /\ [][Next]_vars /\ WF_vars(\E p \in Procs : Continue(p))

\* every call runs to completion before the next one starts
SerialInit == Init /\ serial = TRUE /\ Cardinality(scope) = 1
SerialSpec == SerialInit /\ [][Next]_vars


\* ------------------------------------------------------- storage failures
\* the positions at which a call has a storage call under way
StoragePcs ==
    {"seed", "find", "update", "reset", "find2", "update2", "insert"}

\* the storage call under way rejects: the catch block logs and rethrows,
\* the call fails to its caller, what earlier storage calls wrote stays
Fail(p) ==
    LET me == proc[p] IN
    /\ me.op \in {"acquire", "create"} /\ me.pc \in StoragePcs
    /\ Step(p, [me EXCEPT !.pc = "done", !.res = Thrown])
    /\ UNCHANGED <<Config, boot, hist, store, nextId, sampleIds, created,
                   calls>>

\* a call starts and its first storage call rejects (the count of
\* getItemFromCollection, the one statement of markAllItemsAsUsed or
\* deleteItemsByUser)
FailFirst(p, op, c, u) ==
    /\ op \in {"markAll", "delete"} => impl # "scan"
    /\ Begin(p, [Call(op, c, IF op = "markAll" THEN Null ELSE u, <<>>)
                    EXCEPT !.pc = "done", !.res = Thrown])
    /\ hist' = IF serial
               THEN [hist EXCEPT ![c] =
                       IF op = "acquire" THEN Asked(c, u)
                       ELSE Forgotten(c)]
               ELSE hist
    /\ UNCHANGED <<Config, boot, store, nextId, sampleIds, created>>

FaultNext ==
    \/ Next
    \/ \E p \in Procs : Fail(p)
    \/ \E p \in Procs, op \in {"acquire", "markAll", "delete"} :
           \E c \in scope, u \in Users : FailFirst(p, op, c, u)

\* one call at a time, and storage calls may fail
FaultSpec == SerialInit /\ [][FaultNext]_vars

\* --------------------------------------------------------- database client
\* the record of the last two calls on the client
Logged(op, out) ==
    LET e == [op |-> op, out |-> out] IN
    IF Len(log) < 2 THEN Append(log, e) ELSE <<log[2], e>>

Storage == <<store, nextId, sampleIds, created, calls, hist, proc>>

\* faulty variant: the client is constructed whatever the configuration
ConstructUnchecked ==
    /\ boot = "library" /\ ~client.made
    /\ \E present \in BOOLEAN :
        /\ client' = [NoClient EXCEPT !.param = present, !.made = TRUE]
        /\ log' = Logged("construct", "ok")
    /\ UNCHANGED <<impl, serial, scope, bot, Aside, boot, Storage>>

\* createDatabaseClient(config): the configuration names the connection
\* parameter (mongoUri / sqliteFile) or does not
Construct ==
    /\ boot = "library" /\ ~client.made
    /\ \E present \in BOOLEAN :
        /\ client' = [NoClient EXCEPT !.param = present, !.made = present]
        /\ log' = Logged("construct",
                         IF present THEN "ok" ELSE "ConfigurationError")
    /\ UNCHANGED <<impl, serial, scope, bot, Aside, boot, Storage>>

\* what connect() leaves in the client and how it settles: the connection
\* opens; or opening fails and the client is as before; or (relational
\* store) the file opens, this.db is set, and CREATE TABLE fails
ConnectOutcomes ==
    {[db |-> TRUE, tables |-> TRUE, out |-> "ok"],
     [db |-> client.db, tables |-> client.tables, out |-> "StorageError"]}
    \cup IF impl = "sqlite"
         THEN {[db |-> TRUE, tables |-> client.tables,
                out |-> "StorageError"]}
         ELSE {}

Connect ==
    /\ boot = "library" /\ client.made
    /\ \E o \in ConnectOutcomes :
        /\ client' = [client EXCEPT !.db = o.db, !.tables = o.tables]
        /\ log' = Logged("connect", o.out)
    /\ UNCHANGED <<impl, serial, scope, bot, Aside, boot, Storage>>

\* faulty variant: disconnect refuses a client that is not connected
DisconnectStrict ==
    /\ boot = "library" /\ client.made
    /\ client' = [client EXCEPT !.db = FALSE, !.tables = FALSE]
    /\ log' = Logged("disconnect",
                     IF client.db THEN "ok" ELSE "NotConnected")
    /\ UNCHANGED <<impl, serial, scope, bot, Aside, boot, Storage>>

\* if (this.db) { close; this.db = null } / client.close(); flag = false
Disconnect ==
    /\ boot = "library" /\ client.made
    /\ client' = [client EXCEPT !.db = FALSE, !.tables = FALSE]
    /\ log' = Logged("disconnect", "ok")
    /\ UNCHANGED <<impl, serial, scope, bot, Aside, boot, Storage>>

\* the relational client throws 'Database not connected' when this.db is
\* null; the document client returns client.db(dbName).collection(name)
\* without looking at the connection
GetCollectionOutcome ==
    IF impl = "sqlite" /\ ~client.db THEN "NotConnected" ELSE "handle"

GetCollection ==
    /\ boot = "library" /\ client.made
    /\ log' = Logged("getCollection", GetCollectionOutcome)
    /\ UNCHANGED <<impl, serial, scope, bot, Aside, client, boot, Storage>>

\* this.db !== null / this.isConnectedFlag
IsConnected ==
    /\ boot = "library" /\ client.made
    /\ log' = Logged("isConnected", IF client.db THEN "true" ELSE "false")
    /\ UNCHANGED <<impl, serial, scope, bot, Aside, client, boot, Storage>>

\* the server module loads. The earlier server imports services/openai
\* first, which ends the process when OPENAI_API_KEY, OPENAI_BASE_URL or
\* OPENAI_MODEL is unset and else constructs the OpenAI client. With the
\* document store and no MONGODB_URI either server logs and exits; the
\* relational file path falls back to ./data.db, so it is never absent;
\* then createDatabaseClient(dbConfig) / new MongoClient(mongoUri)
ServerLoad ==
    /\ boot = "load"
    /\ \E envSet \in BOOLEAN, aiSet \in BOOLEAN :
        IF impl = "scan" /\ ~aiSet
        THEN /\ boot' = "exited"
             /\ log' = Logged("load", "MissingAIParameter")
             /\ UNCHANGED <<client, bot>>
        ELSE IF Documents(impl) /\ ~envSet
        THEN /\ boot' = "exited"
             /\ log' = Logged("load", "MissingParameter")
             /\ bot' = (impl = "scan")
             /\ UNCHANGED client
        ELSE /\ boot' = "made"
             /\ client' = [NoClient EXCEPT !.param = TRUE, !.made = TRUE]
             /\ log' = Logged("construct", "ok")
             /\ bot' = (impl = "scan")
    /\ UNCHANGED <<impl, serial, scope, Aside, Storage>>

\* initializeCollections at the start of the earlier server: the
\* collections of S, found empty, receive their samples
StartupSeed(S) ==
    /\ store' = [c \in Collections |->
            IF c \in S /\ store[c] = <<>>
            THEN [k \in DOMAIN SampleOf(c) |->
                    SeedItem(FreshIds(c, Len(SampleOf(c)))[k], SampleOf(c)[k])]
            ELSE store[c]]
    /\ sampleIds' = [c \in Collections |->
            IF c \in S /\ store[c] = <<>>
            THEN FreshIds(c, Len(SampleOf(c))) ELSE sampleIds[c]]
    /\ nextId' = [c \in Collections |->
            IF c \in S /\ store[c] = <<>>
            THEN nextId[c] + Len(SampleOf(c)) ELSE nextId[c]]

\* initializeServices().then(listen): connect, and on failure
\* process.exit(1); then chatBot.initialize, whose failure (a missing
\* apiKey, baseURL or model) is caught and logged; then listen
ServerStart ==
    /\ boot = "made" /\ impl # "scan"
    /\ \E o \in ConnectOutcomes :
        /\ client' = [client EXCEPT !.db = o.db, !.tables = o.tables]
        /\ IF o.out = "ok"
           THEN \E ready \in BOOLEAN :
                    /\ bot' = ready
                    /\ boot' = "listening"
                    /\ log' = <<[op |-> "connect", out |-> "ok"],
                                [op |-> "initialize",
                                 out |-> IF ready THEN "ok"
                                         ELSE "Unavailable"]>>
           ELSE /\ boot' = "exited" /\ bot' = bot
                /\ log' = Logged("connect", o.out)
    /\ UNCHANGED <<impl, serial, scope, Aside, Storage>>

\* connectToMongo().then(listen) of the earlier server: client.connect(),
\* then initializeCollections over COLLECTIONS, whose tasks run at once, so
\* that one may have seeded its collection when another fails; on either
\* failure process.exit(1)
ConnectToMongo ==
    /\ boot = "made" /\ impl = "scan"
    /\ \/ /\ client' = client
          /\ boot' = "exited"
          /\ log' = Logged("connect", "StorageError")
          /\ UNCHANGED <<store, sampleIds, nextId>>
       \/ \E S \in SUBSET Collections :
          /\ client' = [client EXCEPT !.db = TRUE, !.tables = TRUE]
          /\ StartupSeed(S)
          /\ boot' = IF S = Collections THEN "listening" ELSE "exited"
          /\ log' = <<[op |-> "connect", out |-> "ok"],
                      [op |-> "initializeCollections",
                       out |-> IF S = Collections THEN "ok"
                               ELSE "StorageError"]>>
    /\ UNCHANGED <<impl, serial, scope, bot, Aside, created, calls, hist,
                   proc>>

\* GET /health: isConnected() on the running server
HealthCheck ==
    /\ boot = "listening"
    /\ log' = Logged("isConnected", IF client.db THEN "true" ELSE "false")
    /\ UNCHANGED <<impl, serial, scope, bot, Aside, client, boot, Storage>>

ClientNext ==
    \/ Construct
    \/ Connect
    \/ Disconnect
    \/ GetCollection
    \/ IsConnected
    \/ ServerLoad
    \/ ServerStart
    \/ ConnectToMongo
    \/ HealthCheck

\* a fresh process: a program that uses the client directly, or the server
\* (the earlier server, on the document store only, has no such client)
ClientInit ==
    /\ impl \in Impls
    /\ serial = TRUE
    /\ scope = Collections
    /\ store = [c \in Collections |-> <<>>]
    /\ nextId = [c \in Collections |-> 1]
    /\ sampleIds = [c \in Collections |-> <<>>]
    /\ created = 0
    /\ calls = 0
    /\ hist = [c \in Collections |-> NoHist]
    /\ proc = [p \in Procs |-> Idle]
    /\ client = NoClient
    /\ boot \in IF impl = "scan" THEN {"load"} ELSE {"library", "load"}
    /\ log = <<>>
    /\ bot = FALSE
    /\ twin = NoTwin
    /\ chatBot = NoChatBot

ClientSpec == ClientInit /\ [][ClientNext]_vars

\* one collection is in use while the other holds what a call of
\* getItemFromCollection for alice, run alone on the fresh store, left there:
\* the sample items, the first of them assigned
AfterAcquire(d) ==
    AssignTo([k \in DOMAIN SampleOf(d) |-> SeedItem(k, SampleOf(d)[k])],
             1, "alice")

PairInit ==
    /\ impl \in Impls
    /\ serial = TRUE
    /\ scope \in {{c} : c \in Collections}
    /\ store = [c \in Collections |->
                    IF c \in scope THEN <<>> ELSE AfterAcquire(c)]
    /\ nextId = [c \in Collections |->
                    IF c \in scope THEN 1 ELSE Len(SampleOf(c)) + 1]
    /\ sampleIds = [c \in Collections |->
                    IF c \in scope \/ impl = "sqlite" THEN <<>>
                    ELSE [k \in DOMAIN SampleOf(c) |-> k]]
    /\ created = 0
    /\ calls = 0
    /\ hist = [c \in Collections |-> NoHist]
    /\ proc = [p \in Procs |-> Idle]
    /\ client = Connected
    /\ boot = "listening"
    /\ log = <<>>
    /\ bot = TRUE
    /\ twin = NoTwin
    /\ chatBot = NoChatBot

PairSpec == PairInit /\ [][Next]_vars

\* ------------------------------------------------------- tracked runs
\* calls made one at a time on one collection, with the items returned by
\* its acquire calls recorded; the collection starts empty and is
\* populated by the calls themselves
RunInit ==
    /\ impl \in Impls
    /\ serial = TRUE
    /\ scope \in {{c} : c \in Collections}
    /\ store = [c \in Collections |-> <<>>]
    /\ nextId = [c \in Collections |-> 1]
    /\ sampleIds = [c \in Collections |-> <<>>]
    /\ created = 0
    /\ calls = 0
    /\ hist = [c \in Collections |-> [NoHist EXCEPT !.track = c \in scope]]
    /\ proc = [p \in Procs |-> Idle]
    /\ client = Connected
    /\ boot = "listening"
    /\ log = <<>>
    /\ bot = TRUE
    /\ twin = NoTwin
    /\ chatBot = NoChatBot

RunNext ==
    \E p \in Procs :
        \/ Acquire(p)
        \/ AcquireSeed(p)
        \/ AcquireFind(p)
        \/ AcquireUpdate(p)
        \/ AcquireReset(p)
        \/ AcquireFind2(p)
        \/ AcquireUpdate2(p)
        \/ Create(p)
        \/ CreateInsert(p)
        \/ \E c \in scope : MarkAll(p, c)
        \/ \E c \in scope, u \in Users : DeleteByUser(p, c, u)
        \/ Return(p)

RunSpec == RunInit /\ [][RunNext]_vars

\* ----------------------------------------------------- MonopolyChatBot
\* OpenAIConfig values a caller passes: "" stands for a missing (falsy)
\* field
OpenAIConfigs ==
    [apiKey : {"", "key1", "key2"}, baseURL : {"", "url1", "url2"},
     model : {"", "gpt", "mini"}]

\* what a createGameEvent that reaches the API comes to: the request
\* throws, the reply is not a JSON array, or it is one
Replies == {"apiError", "failure", "success"}

\* private openaiClient: OpenAI | null = null
NoOpenAI == [apiKey |-> "", baseURL |-> ""]

\* private constructor() {}; openaiClient = null, model = ''
Constructed == [openaiClient |-> NoOpenAI, model |-> ""]

\* the class alone, loaded by a program that has not yet touched it
BotInit ==
    /\ impl = "mongodb"
    /\ serial = TRUE
    /\ scope = Collections
    /\ store = [c \in Collections |-> <<>>]
    /\ nextId = [c \in Collections |-> 1]
    /\ sampleIds = [c \in Collections |-> <<>>]
    /\ created = 0
    /\ calls = 0
    /\ hist = [c \in Collections |-> NoHist]
    /\ proc = [p \in Procs |-> Idle]
    /\ client = Connected
    /\ boot = "library"
    /\ log = <<>>
    /\ bot = FALSE
    /\ twin = NoTwin
    /\ chatBot = NoChatBot

Rest == <<impl, serial, scope, client, log, twin, boot, Storage>>

Done(op, o, arg, out, api) ==
    [op |-> op, obj |-> o, arg |-> arg, out |-> out, api |-> api,
     pre |-> chatBot.objects]

\* MonopolyChatBot.getInstance()
GetInstance ==
    LET fresh == chatBot.instance = 0
        objects == IF fresh THEN Append(chatBot.objects, Constructed)
                   ELSE chatBot.objects
        instance == IF fresh THEN Len(objects) ELSE chatBot.instance
    IN
    /\ chatBot' = [chatBot EXCEPT
            !.instance = instance,
            !.objects = objects,
            !.handed = @ \cup {instance},
            !.last = Done("getInstance", instance, <<>>, "returned", FALSE)]
    /\ UNCHANGED <<bot, Rest>>

\* faulty variant: the client is built before the model is looked at
InitializeEarly(o, config) ==
    /\ o \in chatBot.handed
    /\ IF config.apiKey = ""
       THEN /\ chatBot' = [chatBot EXCEPT !.last =
                    Done("initialize", o, config, "MissingApiKey", FALSE)]
            /\ UNCHANGED bot
       ELSE IF config.baseURL = ""
       THEN /\ chatBot' = [chatBot EXCEPT !.last =
                    Done("initialize", o, config, "MissingBaseURL", FALSE)]
            /\ UNCHANGED bot
       ELSE IF config.model = ""
       THEN /\ chatBot' = [chatBot EXCEPT
                    !.objects[o].openaiClient =
                        [apiKey |-> config.apiKey,
                         baseURL |-> config.baseURL],
                    !.last =
                        Done("initialize", o, config, "MissingModel", FALSE)]
            /\ bot' = IF o = chatBot.instance THEN TRUE ELSE bot
       ELSE /\ chatBot' = [chatBot EXCEPT
                    !.objects[o] =
                        [openaiClient |-> [apiKey |-> config.apiKey,
                                           baseURL |-> config.baseURL],
                         model |-> config.model],
                    !.inited = @ \cup {o},
                    !.last = Done("initialize", o, config, "returned", FALSE)]
            /\ bot' = IF o = chatBot.instance THEN TRUE ELSE bot
    /\ UNCHANGED Rest

\* initialize(config) on an object a caller holds
Initialize(o, config) ==
    /\ o \in chatBot.handed
    /\ IF config.apiKey = ""
       THEN /\ chatBot' = [chatBot EXCEPT !.last =
                    Done("initialize", o, config, "MissingApiKey", FALSE)]
            /\ UNCHANGED bot
       ELSE IF config.baseURL = ""
       THEN /\ chatBot' = [chatBot EXCEPT !.last =
                    Done("initialize", o, config, "MissingBaseURL", FALSE)]
            /\ UNCHANGED bot
       ELSE IF config.model = ""
       THEN /\ chatBot' = [chatBot EXCEPT !.last =
                    Done("initialize", o, config, "MissingModel", FALSE)]
            /\ UNCHANGED bot
       ELSE /\ chatBot' = [chatBot EXCEPT
                    !.objects[o] =
                        [openaiClient |-> [apiKey |-> config.apiKey,
                                           baseURL |-> config.baseURL],
                         model |-> config.model],
                    !.inited = @ \cup {o},
                    !.last = Done("initialize", o, config, "returned", FALSE)]
            /\ bot' = IF o = chatBot.instance THEN TRUE ELSE bot
    /\ UNCHANGED Rest

\* createGameEvent(message) on an object a caller holds
CreateGameEvent(o) ==
    /\ o \in chatBot.handed
    /\ IF chatBot.objects[o].openaiClient = NoOpenAI
       THEN chatBot' = [chatBot EXCEPT !.last =
                Done("createGameEvent", o, <<>>, "NotInitialized", FALSE)]
       ELSE \E reply \in Replies :
                chatBot' = [chatBot EXCEPT !.last =
                    Done("createGameEvent", o, <<>>, reply, TRUE)]
    /\ UNCHANGED <<bot, Rest>>

\* isInitialized() on an object a caller holds
IsInitialized(o) ==
    /\ o \in chatBot.handed
    /\ chatBot' = [chatBot EXCEPT !.last =
            Done("isInitialized", o, <<>>,
                 IF chatBot.objects[o].openaiClient # NoOpenAI
                 THEN "true" ELSE "false", FALSE)]
    /\ UNCHANGED <<bot, Rest>>

BotNext ==
    \/ GetInstance
    \/ \E o \in chatBot.handed, config \in OpenAIConfigs :
            Initialize(o, config)
    \/ \E o \in chatBot.handed : CreateGameEvent(o)
    \/ \E o \in chatBot.handed : IsInitialized(o)

BotSpec == BotInit /\ [][BotNext]_vars

\* ---------------------------------------------- acquire against delete
\* the collection after initializeCollections has seeded it,
\* markAllItemsAsUsed has marked the seeded items and one user has created
\* an item: acquire and delete calls then overlap
Populated(c, u) ==
    MarkUsed([k \in DOMAIN SampleOf(c) |-> SeedItem(k, SampleOf(c)[k])])
        \o <<CreatedItem(Len(SampleOf(c)) + 1,
                         CHOOSE pl \in NewPayloads : TRUE, u)>>

RaceInit ==
    /\ impl \in {"mongodb", "sqlite"}
    /\ serial = FALSE
    /\ scope \in {{c} : c \in Collections}
    /\ \E u \in Users :
        store = [c \in Collections |->
                    IF c \in scope THEN Populated(c, u) ELSE <<>>]
    /\ nextId = [c \in Collections |->
                    IF c \in scope THEN Len(SampleOf(c)) + 2 ELSE 1]
    /\ sampleIds = [c \in Collections |->
                    IF c \in scope /\ impl = "mongodb"
                    THEN [k \in DOMAIN SampleOf(c) |-> k] ELSE <<>>]
    /\ created = 1
    /\ calls = 0
    /\ hist = [c \in Collections |-> NoHist]
    /\ proc = [p \in Procs |-> Idle]
    /\ client = Connected
    /\ boot = "listening"
    /\ log = <<>>
    /\ bot = TRUE
    /\ twin = NoTwin
    /\ chatBot = NoChatBot

RaceNext ==
    \E p \in Procs :
        \/ Acquire(p)
        \/ AcquireFind(p)
        \/ AcquireUpdate(p)
        \/ AcquireReset(p)
        \/ AcquireFind2(p)
        \/ AcquireUpdate2(p)
        \/ \E c \in scope, u \in Users : DeleteByUser(p, c, u)
        \/ Return(p)

RaceSpec == RaceInit /\ [][RaceNext]_vars

\* ------------------------------------------- createEvents and updateEvents
\* the two handlers that generate events and store them
Workflows == {"createEvents", "updateEvents"}

\* what chatBot.createGameEvent(message) does: it throws 'MonopolyChatBot
\* not initialized' without a client; otherwise the completion call may
\* reject (rethrown), its content may not parse to an array
\* (success: false), or it is an array of events (success: true), which may
\* be empty
GenerationOutcomes ==
    IF ~bot THEN {[gen |-> "uninitialized", events |-> <<>>]}
    ELSE {[gen |-> "apiError", events |-> <<>>],
          [gen |-> "invalid", events |-> <<>>]}
         \cup {[gen |-> "events", events |-> b] : b \in Batches(MaxGenerated)}

\* a request with userId and message arrives and passes the handler's
\* validation: updateEvents turns to deleteItemsByUser, createEvents to
\* the generation
StartWorkflow(p, op, u) ==
    /\ FreeSlot(p) /\ calls < MaxCalls
    /\ op \in Workflows
    /\ Step(p, [Call(op, "events", u, <<>>) EXCEPT
            !.pc = IF op = "updateEvents" THEN "delete" ELSE "generate"])
    /\ calls' = calls + 1
    /\ UNCHANGED <<Config, boot, hist, store, nextId, sampleIds, created>>

\* await deleteItemsByUser(dbClient, COLLECTIONS.events.name, userId)
WorkflowDelete(p) ==
    LET me == proc[p] IN
    /\ me.op = "updateEvents" /\ me.pc = "delete"
    /\ store' = [store EXCEPT ![me.coll] = NotCreatedBy(@, me.user)]
    /\ Step(p, [me EXCEPT
            !.pc = "generate",
            !.deleted = Len(CreatedBy(store[me.coll], me.user))])
    /\ UNCHANGED <<Config, boot, hist, nextId, sampleIds, created, calls>>

\* await chatBot.createGameEvent(message), and what the handler makes of
\* it: 503 for the not-initialized error, the rethrow to the outer catch
\* for any other error, 400 for success: false, else createItems with the
\* events (whose relational loop over an empty list makes no storage call)
Generate(p) ==
    LET me == proc[p] IN
    /\ me.op \in Workflows /\ me.pc = "generate"
    /\ \E o \in GenerationOutcomes :
        Step(p, CASE o.gen = "uninitialized" ->
                        [me EXCEPT !.pc = "done", !.gen = o.gen,
                                   !.res = Unavailable]
                  [] o.gen = "apiError" ->
                        [me EXCEPT !.pc = "done", !.gen = o.gen,
                                   !.res = Thrown]
                  [] o.gen = "invalid" ->
                        [me EXCEPT !.pc = "done", !.gen = o.gen,
                                   !.res = Rejected]
                  [] OTHER ->
                        IF impl = "sqlite" /\ o.events = <<>>
                        THEN [me EXCEPT !.pc = "done", !.gen = o.gen,
                                        !.res = Counted(0, <<>>)]
                        ELSE [me EXCEPT !.pc = "insert", !.gen = o.gen,
                                        !.arg = o.events, !.i = 1])
    /\ UNCHANGED <<Config, boot, hist, store, nextId, sampleIds, created,
                   calls>>

\* the storage call of createItems that is due
WorkflowInsert(p) ==
    /\ proc[p].op \in Workflows /\ proc[p].pc = "insert"
    /\ IF impl = "sqlite" THEN CreateRow(p) ELSE CreateMany(p)
    /\ UNCHANGED <<Config, boot, hist, sampleIds, created, calls>>

\* faulty variant: the failing handler puts the collection back as it
\* found it
WorkflowFailRestores(p) ==
    LET me == proc[p] IN
    /\ me.op \in Workflows /\ me.pc \in {"delete", "insert"}
    /\ Step(p, [me EXCEPT !.pc = "done", !.res = Thrown])
    /\ store' = [store EXCEPT ![me.coll] = me.pre]
    /\ UNCHANGED <<Config, boot, hist, nextId, sampleIds, created, calls>>

\* the storage call under way in a handler rejects: the operation
\* rethrows, the handler's inner catch rethrows, the outer catch answers
\* 500
WorkflowFail(p) ==
    LET me == proc[p] IN
    /\ me.op \in Workflows /\ me.pc \in {"delete", "insert"}
    /\ Step(p, [me EXCEPT !.pc = "done", !.res = Thrown])
    /\ UNCHANGED <<Config, boot, hist, store, nextId, sampleIds, created,
                   calls>>

WorkflowNext ==
    \/ \E p \in Procs, op \in Workflows, u \in Users : StartWorkflow(p, op, u)
    \/ \E p \in Procs : \/ WorkflowDelete(p)
                        \/ Generate(p)
                        \/ WorkflowInsert(p)
                        \/ WorkflowFail(p)
                        \/ Return(p)

\* a running server over either store, with or without the AI
\* collaborator, serving the two handlers one request at a time
WorkflowInit ==
    /\ impl \in {"mongodb", "sqlite"}
    /\ serial = TRUE
    /\ scope = {"events"}
    /\ store = [c \in Collections |-> <<>>]
    /\ nextId = [c \in Collections |-> 1]
    /\ sampleIds = [c \in Collections |-> <<>>]
    /\ created = 0
    /\ calls = 0
    /\ hist = [c \in Collections |-> NoHist]
    /\ proc = [p \in Procs |-> Idle]
    /\ client = Connected
    /\ boot = "listening"
    /\ log = <<>>
    /\ bot \in BOOLEAN
    /\ twin = NoTwin
    /\ chatBot = NoChatBot

WorkflowSpec == WorkflowInit /\ [][WorkflowNext]_vars

\* ------------------------------------------- one call on both store branches
\* the four operations that branch on `collection instanceof Collection`
Branched == {"acquire", "create", "markAll", "delete"}

OtherBranch(i) == IF i = "sqlite" THEN "mongodb" ELSE "sqlite"

\* the payload of what branch i keeps in the data field / column
PayloadIn(i, data) == IF i = "sqlite" THEN JSONParse(data) ELSE data

\* what branch i keeps for a payload
DataIn(i, payload) == IF i = "sqlite" THEN JSONStringify(payload) ELSE payload

\* a collection of branch i, projected on payload, used, assignedTo and
\* createdBy
Project(i, items) ==
    [k \in DOMAIN items |->
        [payload |-> PayloadIn(i, items[k].data),
         used |-> items[k].used,
         assignedTo |-> items[k].assignedTo,
         createdBy |-> items[k].createdBy]]

\* the same collection as branch j holds it
Convert(i, j, items) ==
    [k \in DOMAIN items |->
        [items[k] EXCEPT !.data = DataIn(j, PayloadIn(i, items[k].data))]]

\* the selection a finished call made: the position of the item it chose,
\* 0 when it chose none
Choice(p) ==
    LET items == store[proc[p].coll]
        at == {k \in DOMAIN items : proc[p].sel # NoItem
                                     /\ items[k].id = proc[p].sel.id}
    IN IF at = {} THEN 0 ELSE CHOOSE k \in at : TRUE

\* the call that starts in slot p is the one under comparison
SameCall(p) ==
    twin.on => /\ proc'[p].op = twin.op
               /\ proc'[p].user = twin.user
               /\ proc'[p].arg = twin.arg

\* the call has ended on the first branch: its result and collection are
\* kept, and the collection it started from is handed to the other branch
Rerun(p) ==
    LET me == proc[p] IN
    /\ me.pc = "done" /\ ~twin.on
    /\ twin' = [on |-> TRUE, op |-> me.op, user |-> me.user, arg |-> me.arg,
                choice |-> Choice(p), kind |-> me.res.kind,
                data |-> me.res.data, n |-> me.res.n,
                post |-> Project(impl, store[me.coll])]
    /\ impl' = OtherBranch(impl)
    /\ store' = [store EXCEPT ![me.coll] = Convert(impl, impl', me.pre)]
    /\ created' = IF me.op = "create" THEN created - Len(me.arg) ELSE created
    /\ proc' = [proc EXCEPT ![p] = Idle]
    /\ UNCHANGED <<serial, scope, chatBot, client, log, bot, boot, hist,
                   nextId, sampleIds, calls>>

\* the call has ended on the second branch as well
Compared(p) ==
    /\ proc[p].pc = "done" /\ twin.on
    /\ twin' = NoTwin
    /\ proc' = [proc EXCEPT ![p] = Idle]
    /\ UNCHANGED <<impl, serial, scope, chatBot, client, log, bot, boot,
                   hist, store, nextId, sampleIds, created, calls>>

TwinNext ==
    \E p \in Procs :
        \/ Acquire(p) /\ SameCall(p)
        \/ AcquireSeed(p)
        \/ AcquireFind(p)
        \/ AcquireUpdate(p)
        \/ AcquireReset(p)
        \/ AcquireFind2(p)
        \/ AcquireUpdate2(p)
        \/ Create(p) /\ SameCall(p)
        \/ CreateInsert(p)
        \/ \E c \in scope : MarkAll(p, c) /\ SameCall(p)
        \/ \E c \in scope, u \in Users : DeleteByUser(p, c, u) /\ SameCall(p)
        \/ Rerun(p)
        \/ Compared(p)

\* one call at a time on the events collection, each call made on one
\* branch and then, from the same collection, on the other
TwinInit ==
    /\ Init
    /\ impl \in {"mongodb", "sqlite"}
    /\ serial = TRUE
    /\ scope = {"events"}

TwinSpec == TwinInit /\ [][TwinNext]_vars

\* ================================================================= claims
\* a getItemFromCollection call that has produced its result
Acquired(p) == proc[p].op = "acquire" /\ proc[p].pc = "done"

\* item it with used and assignedTo replaced
With(it, used, assignedTo) ==
    [it EXCEPT !.used = used, !.assignedTo = assignedTo]

\* C1: a call that runs alone on a collection holding an unused item
\* returns success with the payload of an item that was unused before the
\* call; afterwards that item is used and assigned to the caller, no reset
\* was performed and every other item is as it was.
C1_AssignsOneUnusedItem ==
    \A p \in Procs :
        LET me == proc[p]
            pre == me.pre
        IN
        (serial /\ Acquired(p) /\ \E k \in DOMAIN pre : ~pre[k].used) =>
            /\ me.res.kind = "ok"
            /\ me.nReset = 0
            /\ \E k \in DOMAIN pre :
                /\ ~pre[k].used
                /\ Stored(me.res.data) = pre[k].data
                /\ store[me.coll] =
                       [j \in DOMAIN pre |->
                           IF j = k THEN With(pre[j], TRUE, me.user)
                           ELSE pre[j]]

\* C1 happens: the pool held used and unused items, and one was assigned
C1_Witness ==
    \E p \in Procs :
        /\ serial /\ Acquired(p) /\ proc[p].res.kind = "ok"
        /\ \E k \in DOMAIN proc[p].pre : ~proc[p].pre[k].used
        /\ \E k \in DOMAIN proc[p].pre : proc[p].pre[k].used

\* C2: a call that runs alone on a non-empty collection whose items are all
\* used first sets every item unused and unassigned, then assigns exactly
\* one item to the caller: one item used and assigned to the caller, every
\* other item unused and unassigned.
C2_ResetsThenAssignsOne ==
    \A p \in Procs :
        LET me == proc[p]
            pre == me.pre
        IN
        (/\ serial /\ me.op = "acquire" /\ pre # <<>>
         /\ \A k \in DOMAIN pre : pre[k].used) =>
            /\ me.pc # "update"
            /\ me.pc \in {"find2", "update2"} =>
                   store[me.coll] =
                       [j \in DOMAIN pre |-> With(pre[j], FALSE, Null)]
            /\ me.pc = "done" =>
                /\ me.res.kind = "ok"
                /\ me.nReset = 1
                /\ \E k \in DOMAIN pre :
                    /\ Stored(me.res.data) = pre[k].data
                    /\ store[me.coll] =
                           [j \in DOMAIN pre |->
                               IF j = k THEN With(pre[j], TRUE, me.user)
                               ELSE With(pre[j], FALSE, Null)]

\* C2 happens: every item was used, one of them by markAllItemsAsUsed and
\* one by another user's acquire
C2_Witness ==
    \E p \in Procs :
        LET pre == proc[p].pre IN
        /\ serial /\ Acquired(p) /\ proc[p].nReset = 1
        /\ pre # <<>> /\ \A k \in DOMAIN pre : pre[k].used
        /\ \E k \in DOMAIN pre : pre[k].assignedTo = Null
        /\ \E k \in DOMAIN pre : pre[k].assignedTo \in Users \ {proc[p].user}

\* C3: a call that runs alone on an empty collection with a non-empty
\* sample list inserts the sample items, unused and unassigned, before it
\* selects; it returns success with one of the sample payloads; afterwards
\* the collection holds as many items as the sample list, exactly one of
\* them used and assigned to the caller, the rest unused.
C3_SeedsBeforeSelecting ==
    \A p \in Procs :
        LET me == proc[p]
            items == store[me.coll]
        IN
        (serial /\ me.op = "acquire" /\ me.pre = <<>> /\ me.arg # <<>>) =>
            /\ me.pc = "seed" => me.sel = NoItem
            /\ me.pc = "find" =>
                /\ me.sel = NoItem
                /\ Len(items) = Len(me.arg)
                /\ \A k \in DOMAIN items :
                    /\ items[k].data = Stored(me.arg[k])
                    /\ ~items[k].used
                    /\ items[k].assignedTo = Null
            /\ me.pc = "done" =>
                /\ me.res.kind = "ok"
                /\ \E k \in DOMAIN me.arg : me.res.data = me.arg[k]
                /\ Len(items) = Len(me.arg)
                /\ \E k \in DOMAIN items :
                       \A j \in DOMAIN items :
                           IF j = k
                           THEN items[j].used /\ items[j].assignedTo = me.user
                           ELSE ~items[j].used

\* C3 happens: a call on an empty collection has seeded and returned
C3_Witness ==
    \E p \in Procs :
        /\ serial /\ Acquired(p) /\ proc[p].pre = <<>> /\ proc[p].arg # <<>>
        /\ proc[p].res.kind = "ok"
        /\ Len(store[proc[p].coll]) = Len(SampleOf(proc[p].coll))

\* C4: two calls for different users that interleave on a collection with an
\* unused item can both select it; the call that writes second returns the
\* same payload as the first and the item then records the second user only.
C4_RaceStep(q) ==
    (/\ proc[q].op = "acquire"
     /\ proc[q].pc \in {"update", "update2"}
     /\ proc[q].raced # NoRace
     /\ proc'[q].pc = "done") =>
        /\ proc'[q].res = Success(proc[q].raced.data)
        /\ \A k \in DOMAIN store'[proc[q].coll] :
               LET it == store'[proc[q].coll][k] IN
               it.id = proc[q].sel.id =>
                   it.used /\ it.assignedTo = proc[q].user

\* C4: every step in which a call writes an item another call has assigned
\* meanwhile returns that call's payload and leaves the item to the writer
C4_LastWriterWins == [][\A q \in Procs : C4_RaceStep(q)]_vars

\* C4 happens: the second writer has returned the payload the first one
\* returned, and the item is assigned to the second writer
C4_Witness ==
    \E q \in Procs :
        LET me == proc[q] IN
        /\ ~serial /\ Acquired(q)
        /\ me.raced.user \in Users \ {me.user}
        /\ me.res = Success(me.raced.data)
        /\ \E k \in DOMAIN store[me.coll] :
            /\ store[me.coll][k].id = me.sel.id
            /\ store[me.coll][k].used
            /\ store[me.coll][k].assignedTo = me.user

\* C5: under every interleaving of calls, a collection that createItems
\* never touched holds at most as many items as its sample list: lazy
\* seeding happens at most once.
C5_SeededAtMostOnce ==
    created = 0 =>
        \A c \in Collections : Len(store[c]) <= Len(SampleOf(c))

\* the items of c that seeding inserted
Seeded(c) == SelectSeq(store[c], LAMBDA it : it.createdBy = Null)

\* the stored form of the configured sample list of c
StoredSample(c) == [k \in DOMAIN SampleOf(c) |-> Stored(SampleOf(c)[k])]

\* the data of a sequence of items
DataOf(items) == [k \in DOMAIN items |-> items[k].data]

\* C6: when calls run one after the other, seeding composes: a collection
\* never holds more seeded items than its sample list, and after
\* initializeCollections or a getItemFromCollection call with the configured
\* sample, in any order and any number of times, a collection that
\* createItems never touched holds exactly the sample payloads.
C6_SeedingComposes ==
    /\ \A c \in Collections : Len(Seeded(c)) <= Len(SampleOf(c))
    /\ \A p \in Procs :
        LET me == proc[p] IN
        (/\ serial /\ me.pc = "done"
         /\ \/ me.op = "init"
            \/ me.op = "acquire" /\ ~(me.pre = <<>> /\ me.arg = <<>>)) =>
            /\ me.res.kind # "thrown"
            /\ \A c \in IF me.op = "init" THEN scope ELSE {me.coll} :
                /\ store[c] # <<>>
                /\ Seeded(c) # <<>> => DataOf(Seeded(c)) = StoredSample(c)
                /\ created = 0 => DataOf(store[c]) = StoredSample(c)

\* C6 happens: initializeCollections has run on a collection that an
\* earlier call had seeded
C6_Witness ==
    \E p \in Procs :
        /\ serial /\ proc[p].op = "init" /\ proc[p].pc = "done"
        /\ created = 0
        /\ \E c \in scope :
            /\ proc[p].task[c].pre # <<>>
            /\ DataOf(store[c]) = StoredSample(c)

\* C7: initializeCollections inserts the sample items, unused, into a
\* collection that holds no items, and leaves a collection that holds items
\* as it is, whatever their used, assignedTo and createdBy values.
C7_InitSeedsIffEmpty ==
    \A p \in Procs :
        LET me == proc[p] IN
        (serial /\ me.op = "init" /\ me.pc = "done") =>
            \A c \in scope :
                IF me.task[c].pre = <<>>
                THEN /\ Len(store[c]) = Len(SampleOf(c))
                     /\ \A k \in DOMAIN store[c] :
                         /\ store[c][k].data = Stored(SampleOf(c)[k])
                         /\ ~store[c][k].used
                         /\ store[c][k].assignedTo = Null
                         /\ store[c][k].createdBy = Null
                ELSE store[c] = me.task[c].pre

\* C7 happens: initializeCollections has run on a collection holding a used
\* item and an item a user created
C7_Witness ==
    \E p \in Procs :
        /\ serial /\ proc[p].op = "init" /\ proc[p].pc = "done"
        /\ \E c \in scope :
            LET pre == proc[p].task[c].pre IN
            /\ \E k \in DOMAIN pre : pre[k].used
            /\ \E k \in DOMAIN pre : pre[k].createdBy \in Users
            /\ store[c] = pre

\* C8 as stated: in every reachable state an item with used = true has
\* assignedTo set to a user.
C8_UsedImpliesAssigned ==
    \A c \in Collections :
        \A k \in DOMAIN store[c] :
            store[c][k].used => store[c][k].assignedTo \in Users

\* the step is the assignment write of a call of user u on item id of c
AssignStep(c, id, u) ==
    \E p \in Procs :
        /\ proc[p].op = "acquire" /\ proc[p].pc \in {"update", "update2"}
        /\ proc'[p].pc = "done"
        /\ proc[p].coll = c /\ proc[p].sel.id = id /\ proc[p].user = u

\* the step is a markAllItemsAsUsed call on c
MarkAllStep(c) ==
    \E p \in Procs :
        /\ proc[p].pc = "idle"
        /\ proc'[p].op = "markAll" /\ proc'[p].coll = c

\* C8, amended: a used item is assigned to the user whose call assigned it
\* last, or it has no assignedTo because markAllItemsAsUsed set used on an
\* unassigned item; no other operation leaves a used item unassigned.
C8_UsedItem(c, k) ==
    LET it == store'[c][k]
        was == SelectSeq(store[c], LAMBDA o : o.id = it.id)
        same == /\ was # <<>>
                /\ was[1].used = it.used
                /\ was[1].assignedTo = it.assignedTo
    IN
    it.used =>
        IF it.assignedTo = Null
        THEN \/ same
             \/ /\ MarkAllStep(c)
                /\ was # <<>> /\ ~was[1].used /\ was[1].assignedTo = Null
        ELSE \/ same
             \/ AssignStep(c, it.id, it.assignedTo)

\* C8, amended: in every step, each used item is assigned by the last
\* acquire that wrote it, or unassigned only through markAllItemsAsUsed
C8_UsedAssignedOrMarked ==
    [][\A c \in Collections :
           \A k \in DOMAIN store'[c] : C8_UsedItem(c, k)]_vars

\* C8 happens: one item is used and assigned, another used and unassigned
C8_Witness ==
    \E c \in Collections :
        /\ \E k \in DOMAIN store[c] :
               store[c][k].used /\ store[c][k].assignedTo \in Users
        /\ \E k \in DOMAIN store[c] :
               store[c][k].used /\ store[c][k].assignedTo = Null

\* a call of the only user who has asked since the collection last changed
\* otherwise
Solo(p) == serial /\ Acquired(p) /\ proc[p].solo.who = proc[p].user

\* the user held every item when the call started
HeldAll(p) ==
    /\ proc[p].pre # <<>>
    /\ \A k \in DOMAIN proc[p].pre :
        /\ proc[p].pre[k].used
        /\ proc[p].pre[k].assignedTo = proc[p].user

\* C9 as stated: once the only user has been assigned every item, every
\* later call of that user resets the collection.
C9_EveryLaterCallResets ==
    \A p \in Procs :
        (Solo(p) /\ proc[p].solo.full) => proc[p].nReset = 1

\* C9, amended: a call of the only user that starts while that user holds
\* every item resets the collection and assigns one item; the reset leaves
\* the user one item, so with two or more items the next call finds an
\* unused item and does not reset.
C9_ResetsWhenHoldingAll ==
    \A p \in Procs :
        Solo(p) =>
            /\ HeldAll(p) =>
                /\ proc[p].nReset = 1
                /\ proc[p].res.kind = "ok"
                /\ Len(Unused(store[proc[p].coll])) = Len(proc[p].pre) - 1
            /\ (\E k \in DOMAIN proc[p].pre : ~proc[p].pre[k].used) =>
                   proc[p].nReset = 0

\* C9 happens: the only user held all of several items and the call reset
C9_Witness ==
    \E p \in Procs :
        /\ Solo(p) /\ HeldAll(p) /\ proc[p].solo.full
        /\ Len(proc[p].pre) >= 2
        /\ proc[p].nReset = 1

\* C10: a call returns the failure result exactly when the collection holds
\* no item after seeding and reset: never on a collection that held items,
\* and always, rather than failing, on an empty collection with an empty
\* sample list.
C10_FailureIffNoItems ==
    \A p \in Procs :
        LET me == proc[p] IN
        (serial /\ Acquired(p)) =>
            /\ me.res.kind \in {"ok", "none"}
            /\ me.res.kind = "none" <=> store[me.coll] = <<>>
            /\ me.pre # <<>> => me.res.kind = "ok"
            /\ (me.pre = <<>> /\ me.arg = <<>>) =>
                   me.res = NoneAvailable(me.coll)

\* the items of c are distinct by id
UniqueIds(items) ==
    \A j, k \in DOMAIN items : items[j].id = items[k].id => j = k

\* C11: no step changes the id, payload, createdBy or createdAt of an item
\* that exists; an existing item changes in used and assignedTo only.
C11_ItemFrame(c) ==
    /\ UniqueIds(store'[c])
    /\ \A j \in DOMAIN store[c] :
        \A k \in DOMAIN store'[c] :
            store'[c][k].id = store[c][j].id =>
                /\ store'[c][k].data = store[c][j].data
                /\ store'[c][k].createdBy = store[c][j].createdBy
                /\ store'[c][k].createdAt = store[c][j].createdAt

\* C11: in every step, existing items keep id, payload, createdBy and
\* createdAt
C11_OnlyRotationFieldsChange ==
    [][\A c \in Collections : C11_ItemFrame(c)]_vars

\* C11 happens: after a reset, an item a user created is used and assigned
C11_Witness ==
    \E p \in Procs :
        /\ serial /\ Acquired(p) /\ proc[p].nReset = 1
        /\ \E k \in DOMAIN store[proc[p].coll] :
            LET it == store[proc[p].coll][k] IN
            it.createdBy \in Users /\ it.used /\ it.assignedTo \in Users

\* the collection the call in slot p names, in a step that call takes
Named(p) == IF proc[p].pc = "idle" THEN proc'[p].coll ELSE proc[p].coll

\* C12: a step of an operation called with collection c leaves the items of
\* every other collection as they are.
C12_OtherCollectionsUnchanged ==
    [][\A p \in Procs :
           proc'[p] # proc[p] =>
               \A d \in Collections \ {Named(p)} :
                   Named(p) \in Collections => store'[d] = store[d]]_vars

\* C12 happens: a call has reset one collection while the other one holds
\* an assigned item
C12_Witness ==
    \E p \in Procs :
        /\ Acquired(p) /\ proc[p].nReset = 1 /\ proc[p].pre # <<>>
        /\ \E d \in Collections \ {proc[p].coll} :
            \E k \in DOMAIN store[d] :
                store[d][k].used /\ store[d][k].assignedTo \in Users

\* the step is a deleteItemsByUser call on c
DeleteStep(c) ==
    \E p \in Procs :
        /\ proc[p].pc = "idle"
        /\ proc'[p].op = "delete" /\ proc'[p].coll = c

\* C13: only deleteItemsByUser removes items: in every other step each item
\* id of a collection stays, so the item count does not decrease.
C13_OnlyDeleteRemoves ==
    [][\A c \in Collections :
           ~DeleteStep(c) =>
               /\ Ids(store[c]) \subseteq Ids(store'[c])
               /\ Len(store[c]) <= Len(store'[c])]_vars

\* C13 happens: a collection that a delete had shrunk has been reset and
\* still holds its items
C13_Witness ==
    \E p \in Procs :
        /\ serial /\ Acquired(p) /\ proc[p].nReset = 1
        /\ Len(store[proc[p].coll]) = Len(proc[p].pre)
        /\ nextId[proc[p].coll] > Len(store[proc[p].coll]) + 1

\* a call of operation op, run alone, that has produced its result
Finished(p, op) == serial /\ proc[p].op = op /\ proc[p].pc = "done"

\* C14: createItems adds one new item per input element, unused,
\* unassigned, created by the caller and carrying the given payload; it
\* returns the number of input elements and one fresh identifier per
\* element, and leaves the items that existed as they were.
C14_CreateAddsEachItem ==
    \A p \in Procs :
        LET me == proc[p]
            pre == me.pre
            n == Len(me.arg)
            ids == me.res.ids
        IN
        Finished(p, "create") =>
            /\ me.res.kind = "count"
            /\ me.res.n = n
            /\ Len(ids) = n
            /\ \A j, k \in 1..n : ids[j] = ids[k] => j = k
            /\ \A k \in 1..n : ids[k] \notin Ids(pre)
            /\ Len(store[me.coll]) = Len(pre) + n
            /\ \A k \in DOMAIN pre : store[me.coll][k] = pre[k]
            /\ \A k \in 1..n :
                  store[me.coll][Len(pre) + k] =
                      [id |-> ids[k], data |-> Stored(me.arg[k]),
                       used |-> FALSE, assignedTo |-> Null,
                       createdBy |-> me.user, createdAt |-> "now"]

\* C15: deleteItemsByUser removes exactly the items the user created,
\* whatever their used and assignedTo, and returns their number; seeded
\* items and items of other creators stay; with nothing to delete it
\* returns 0 and changes nothing.
C15_DeleteRemovesCreatorsItems ==
    \A p \in Procs :
        LET me == proc[p]
            pre == me.pre
            mine == {k \in DOMAIN pre : pre[k].createdBy = me.user}
        IN
        Finished(p, "delete") =>
            /\ me.res.kind = "count"
            /\ me.res.n = Cardinality(mine)
            /\ store[me.coll] =
                   SelectSeq(pre, LAMBDA it : it.createdBy # me.user)
            /\ \A k \in DOMAIN pre :
                   pre[k].createdBy = Null =>
                       \E j \in DOMAIN store[me.coll] :
                           store[me.coll][j] = pre[k]
            /\ mine = {} => me.res.n = 0 /\ store[me.coll] = pre

\* C15 happens: a delete has removed an item that was in use and left the
\* other items
C15_Witness ==
    \E p \in Procs :
        /\ Finished(p, "delete") /\ proc[p].res.n >= 1
        /\ \E k \in DOMAIN proc[p].pre :
            /\ proc[p].pre[k].createdBy = proc[p].user
            /\ proc[p].pre[k].used
        /\ store[proc[p].coll] # <<>>

\* C16: markAllItemsAsUsed sets used on every item that was unused and
\* returns their number; it changes no assignedTo and no item that was
\* used; afterwards every item is used, and a call that finds every item
\* used returns 0.
C16_MarkAllSetsUsed ==
    \A p \in Procs :
        LET me == proc[p]
            pre == me.pre
            unused == {k \in DOMAIN pre : ~pre[k].used}
        IN
        Finished(p, "markAll") =>
            /\ me.res.kind = "count"
            /\ me.res.n = Cardinality(unused)
            /\ store[me.coll] =
                   [k \in DOMAIN pre |->
                       IF k \in unused THEN [pre[k] EXCEPT !.used = TRUE]
                       ELSE pre[k]]
            /\ \A k \in DOMAIN store[me.coll] : store[me.coll][k].used
            /\ unused = {} => me.res.n = 0 /\ store[me.coll] = pre

\* C16 happens: a call has marked unused items of a collection that also
\* held an assigned item
C16_Witness ==
    \E p \in Procs :
        /\ Finished(p, "markAll") /\ proc[p].res.n >= 1
        /\ \E k \in DOMAIN proc[p].pre :
            proc[p].pre[k].used /\ proc[p].pre[k].assignedTo \in Users

\* the last call on the client was op
Last(op) == log # <<>> /\ log[Len(log)].op = op

\* C17: on both store variants getCollection fails with a not-connected
\* error whenever the client holds no open connection, before connect() as
\* after disconnect().
C17_NotConnectedFails ==
    (Last("getCollection") /\ ~client.db) =>
        log[Len(log)].out = "NotConnected"

C19_DisconnectIdempotent ==
    /\ \A k \in DOMAIN log : log[k].op = "disconnect" => log[k].out = "ok"
    /\ Last("disconnect") => ~client.db
    /\ (Len(log) = 2 /\ log[1].op = "disconnect"
        /\ log[2].op = "isConnected") => log[2].out = "false"

\* C19 happens: disconnect() has been called twice in a row
C19_Witness ==
    /\ Len(log) = 2 /\ ~client.db
    /\ log[1] = [op |-> "disconnect", out |-> "ok"]
    /\ log[2] = [op |-> "disconnect", out |-> "ok"]

\* the call in slot p has failed to its caller
Failed(p) == proc[p].pc = "done" /\ proc[p].res = Thrown

\* C20: a storage step that fails ends the operation: the failing step
\* writes nothing and undoes nothing, the operation takes no further
\* storage step and does not retry, the handler answers with an error
\* response, and the process goes on serving; a reset applied before the
\* failure stays applied.
C20_Step(p) ==
    LET me == proc[p] IN
    /\ (~Failed(p) /\ proc'[p].pc = "done" /\ proc'[p].res = Thrown) =>
           store' = store
    /\ (Failed(p) /\ proc'[p] # me) =>
        /\ proc'[p] = Idle
        /\ store' = store
        /\ Response(me.res).status = 500 /\ Response(me.res).error
        /\ boot' = "listening"
    /\ (Failed(p) /\ me.op = "acquire" /\ me.nReset = 1) =>
           store[me.coll] =
               [k \in DOMAIN me.pre |-> With(me.pre[k], FALSE, Null)]

\* C20: every step of a failing or failed call is as described above
C20_FailurePropagates == [][\A p \in Procs : C20_Step(p)]_vars

\* C20 happens: a call has failed after its reset, and the collection is
\* not what it was before the call
C20_Witness ==
    \E p \in Procs :
        /\ Failed(p) /\ proc[p].op = "acquire" /\ proc[p].nReset = 1
        /\ store[proc[p].coll] # proc[p].pre
        /\ boot = "listening"


\* C21 --------------------------------------------------------------------
\* an updateEvents request that got past its deletion and then failed: the
\* generation was unavailable or failed, or createItems failed
UpdateFailed(p) ==
    /\ proc[p].op = "updateEvents" /\ proc[p].pc = "done"
    /\ proc[p].gen # "-"
    /\ proc[p].res.kind \in {"thrown", "unavailable", "rejected"}

\* the items the create step of p wrote before it ended
Inserted(p) ==
    [k \in 1..Len(proc[p].ids) |->
        CreatedItem(proc[p].ids[k], proc[p].arg[k], proc[p].user)]

GenerationFailed(p) ==
    /\ proc[p].op = "createEvents" /\ proc[p].pc = "done"
    /\ proc[p].gen \in {"uninitialized", "apiError", "invalid"}

\* C22: whenever the generation of a createEvents request fails, the
\* caller receives the service-unavailable answer (503), which no other
\* failure gets, no item is created, and the server goes on listening
C22_GenerationFailureIsUnavailable ==
    \A p \in Procs :
        GenerationFailed(p) =>
            /\ Response(proc[p].res).status = 503
            /\ store[proc[p].coll] = proc[p].pre
            /\ boot = "listening"


\* C23 --------------------------------------------------------------------
\* the payloads that seeding or createItems can insert into collection c
Payloads(c) == {SampleOf(c)[k] : k \in DOMAIN SampleOf(c)} \cup NewPayloads

\* C23: every item of a collection holds the stored form of a payload P
\* that was inserted into it, retrieving that form gives P back, and every
\* success=true result of getItemFromCollection is the payload P of the
\* item it selected, on both stores
C23_PayloadRoundTrip ==
    /\ \A c \in Collections : \A k \in DOMAIN store[c] :
            \E P \in Payloads(c) :
                /\ store[c][k].data = Stored(P)
                /\ Retrieved(store[c][k].data) = P
    /\ \A p \in Procs :
            Acquired(p) /\ proc[p].res.kind = "ok" =>
                \E k \in DOMAIN store[proc[p].coll] :
                    \E P \in Payloads(proc[p].coll) :
                        /\ store[proc[p].coll][k].id = proc[p].sel.id
                        /\ store[proc[p].coll][k].data = Stored(P)
                        /\ proc[p].res.data = P

\* the relational store has returned a payload that createItems stored and
\* holds a seeded item as well
C23_Witness ==
    /\ impl = "sqlite"
    /\ \E p \in Procs :
            /\ Acquired(p) /\ proc[p].res.kind = "ok"
            /\ proc[p].res.data \in NewPayloads
            /\ \E k \in DOMAIN store[proc[p].coll] :
                    store[proc[p].coll][k].createdBy = Null


\* C24 --------------------------------------------------------------------
\* C24: a call made on one store branch and then, from the same collection
\* and with the same selection, on the other gives the same result and
\* leaves the same collection (projected on payload, used, assignedTo and
\* createdBy)
C24_BranchesInterchangeable ==
    \A p \in Procs :
        twin.on /\ proc[p].pc = "done" /\ Choice(p) = twin.choice =>
            /\ proc[p].res.kind = twin.kind
            /\ proc[p].res.data = twin.data
            /\ proc[p].res.n = twin.n
            /\ Project(impl, store[proc[p].coll]) = twin.post


\* C25 --------------------------------------------------------------------
\* a getItemFromCollection call that has selected an item and not yet
\* written the assignment
Selected(p) ==
    proc[p].op = "acquire" /\ proc[p].pc \in {"update", "update2"}

\* the items the pass of p chose from: the unused items not assigned to
\* the user in the first pass, every item in the second
Pool(p) ==
    IF proc[p].pc = "update"
    THEN SelectSeq(store[proc[p].coll],
                   LAMBDA it : ~it.used /\ it.assignedTo # proc[p].user)
    ELSE store[proc[p].coll]

\* C25: in every variant the selected item is a member of the candidate
\* set of its pass, which is every choice the randomized variant can make;
\* the sequential-scan variant selects the first candidate in store order,
\* so its selection is one of them
C25_ScanRefinesRandom ==
    \A p \in Procs :
        Selected(p) =>
            /\ \E k \in DOMAIN Pool(p) : proc[p].sel = Read(Pool(p)[k])
            /\ impl = "scan" => proc[p].sel = Read(Pool(p)[1])
            /\ impl # "scan" =>
                    \A k \in DOMAIN Pool(p) :
                        \E it \in Selection(Pool(p)) : it = Pool(p)[k]

\* the sequential scan has selected from a pass that offered more than one
\* candidate
C25_Witness ==
    /\ impl = "scan"
    /\ \E p \in Procs : Selected(p) /\ Len(Pool(p)) > 1


\* C26 --------------------------------------------------------------------
\* a getItemFromCollection call in slot p that has not produced its result
Running(p) == proc[p].op = "acquire" /\ proc[p].pc # "done"

\* the storage steps a call at this position has at most before it: the
\* seed inserts still due, the first pass, then the assignment, or the
\* reset, the second pass and the assignment
Rank(me) ==
    CASE me.pc = "seed" -> 6 + (Len(me.arg) + 1 - me.i)
      [] me.pc = "find" -> 6
      [] me.pc = "update" -> 5
      [] me.pc = "reset" -> 4
      [] me.pc = "find2" -> 3
      [] me.pc = "update2" -> 2
      [] OTHER -> 0

\* the call in slot p takes its next step
Advances(p) ==
    /\ Running(p)
    /\ <<proc'[p].pc, proc'[p].i>> # <<proc[p].pc, proc[p].i>>

\* C26: every step of a getItemFromCollection call brings it nearer its
\* end along count, seed, first pass, then assignment, or reset, second
\* pass and assignment (so one reset, two passes and one assignment write
\* at most); its result is success=true, success=false or an error; and
\* under any interleaving with other calls it ends
C26_AcquireTerminates ==
    /\ [](\A p \in Procs :
            proc[p].op = "acquire" =>
                /\ proc[p].nReset <= 1
                /\ Rank(proc[p]) <= 6 + Len(SampleOf(proc[p].coll))
                /\ proc[p].pc = "done" =>
                        proc[p].res.kind \in {"ok", "none", "thrown"})
    /\ [][\A p \in Procs :
            Advances(p) =>
                /\ Rank(proc'[p]) < Rank(proc[p])
                /\ proc[p].pc = "update" => proc'[p].pc = "done"]_vars
    /\ \A p \in Procs : Running(p) ~> (proc[p].pc = "done")

\* two calls on one collection are under way at once and one of them has
\* reset the collection and is in its second pass
C26_Witness ==
    \E p, q \in Procs :
        /\ p # q
        /\ Running(p) /\ Running(q)
        /\ proc[p].nReset = 1 /\ proc[p].pc = "update2"


\* C27 --------------------------------------------------------------------
\* a getItemFromCollection call that reset the collection and selected, in
\* its second pass, an item its user held when the call started
Reselected(p) ==
    /\ Acquired(p) /\ proc[p].res.kind = "ok" /\ proc[p].nReset = 1
    /\ \E k \in DOMAIN proc[p].pre :
            /\ proc[p].pre[k].id = proc[p].sel.id
            /\ proc[p].pre[k].used
            /\ proc[p].pre[k].assignedTo = proc[p].user

\* C27: the second selection pass excludes no item: whatever item the
\* collection holds after the reset, the user's own last one included, is
\* one the pass may choose (any of them in the randomized variants, the
\* first in store order in the sequential scan); and a user who holds the
\* only item of a collection receives that item again on the next call
C27_SecondPassUnfiltered ==
    \A p \in Procs :
        /\ proc[p].op = "acquire" /\ proc[p].pc = "update2" =>
                /\ \E k \in DOMAIN store[proc[p].coll] :
                        proc[p].sel = Read(store[proc[p].coll][k])
                /\ impl # "scan" =>
                        \A k \in DOMAIN store[proc[p].coll] :
                            \E it \in Selection(store[proc[p].coll]) :
                                Read(it) = Read(store[proc[p].coll][k])
        /\ /\ Acquired(p) /\ proc[p].res.kind # "thrown"
           /\ Len(proc[p].pre) = 1
           /\ proc[p].pre[1].used
           /\ proc[p].pre[1].assignedTo = proc[p].user
           => Reselected(p)

\* the user who held the only item of a collection has called again and
\* received, through the reset, the same item
C27_Witness ==
    \E p \in Procs : Reselected(p) /\ Len(proc[p].pre) = 1


\* C28 --------------------------------------------------------------------
\* C28: isConnected() changes nothing (IsConnected and HealthCheck leave
\* the client as it is) and answers true exactly when a connect() has
\* completed successfully and no disconnect() has completed since; after
\* a connect() that failed partway it answers false
C28_ConnectedIffConnectSucceeded ==
    Last("isConnected") =>
        (log[Len(log)].out = "true" <=> client.tables)


\* C29 --------------------------------------------------------------------
\* the step is the server's connect() failing
ConnectFails ==
    /\ boot = "made"
    /\ log' # log
    /\ log'[Len(log')].op = "connect" /\ log'[Len(log')].out # "ok"

\* the step is the server's connect() succeeding and its
\* chatBot.initialize running, whatever comes of it
ConnectsAndInitializes ==
    /\ boot = "made"
    /\ Len(log') = 2
    /\ log'[1] = [op |-> "connect", out |-> "ok"]
    /\ log'[2].op = "initialize"

\* the process ended at load because the AI collaborator's configuration
\* was missing
ExitedForAI ==
    /\ boot = "exited"
    /\ Last("load") /\ log[Len(log)].out = "MissingAIParameter"

\* what C29 says of the storage connection: a server that listens has
\* connected; a failed connect() ends the process; an ended process never
\* listens; and a connect() followed by chatBot.initialize leads to
\* listening, whether initialize succeeds or throws
StartsAfterConnect ==
    /\ [](boot = "listening" =>
            client.made /\ client.db /\ client.tables)
    /\ [][boot = "exited" => boot' = "exited"]_vars
    /\ [][ConnectFails => boot' = "exited"]_vars
    /\ [][ConnectsAndInitializes => boot' = "listening"]_vars

\* C29: the server listens only after connect() succeeded, a failed
\* connect() ends the process before it listens, and no failure to set up
\* the AI collaborator ends the process
C29_AIFailureNeverAborts ==
    StartsAfterConnect /\ [](~ExitedForAI)


\* C30 --------------------------------------------------------------------
\* C30: under any interleaving every item with used = false has no
\* assignedTo, so for every user the first-pass candidates (used = false
\* and assignedTo other than the user) are exactly the unused items
C30_UnusedHaveNoOwner ==
    \A c \in Collections :
        /\ \A k \in DOMAIN store[c] :
                ~store[c][k].used => store[c][k].assignedTo = Null
        /\ \A u \in Users :
                Candidates(store[c], u) =
                    SelectSeq(store[c], LAMBDA it : ~it.used)

\* while a call that has selected its item is under way, the collection
\* it works on holds an item assigned to a user beside an unused one
C30_Witness ==
    \E p \in Procs :
        /\ Selected(p)
        /\ \E j, k \in DOMAIN store[proc[p].coll] :
                /\ store[proc[p].coll][j].used
                /\ store[proc[p].coll][j].assignedTo \in Users
                /\ ~store[proc[p].coll][k].used

\* ---------------------------------------------------------------- C31
\* the acquire call in slot p on collection c, between its first read and
\* its return
Acquiring(p, c) ==
    /\ proc[p].op = "acquire" /\ proc[p].coll = c
    /\ proc[p].pc \in {"update", "reset", "find2", "update2"}

\* C31: in a run of acquire calls made one at a time on a collection, with
\* no create, delete or markAll between them, the items returned since the
\* last reset (or since the run began) are pairwise distinct, whichever
\* users ask; a call resets only when no item is unused, and a call that
\* does not reset has selected an unused item; and when the run began with
\* every item unused, its first reset comes after as many returns as the
\* collection has items, one for each item
C31_NoRepeatBetweenResets ==
    \A c \in Collections :
        /\ Cardinality(hist[c].given) = hist[c].n
        /\ \A p \in Procs :
            Acquiring(p, c) =>
                /\ proc[p].pc = "reset" =>
                        \A k \in DOMAIN store[c] : store[c][k].used
                /\ proc[p].pc = "update" =>
                        \E k \in DOMAIN store[c] :
                            /\ store[c][k].id = proc[p].sel.id
                            /\ ~store[c][k].used
                /\ (/\ proc[p].pc = "reset"
                    /\ hist[c].fresh /\ ~hist[c].reset) =>
                        /\ hist[c].given = Ids(store[c])
                        /\ hist[c].n = Len(store[c])

\* a run that began with every item unused has returned each of the three
\* or more items once, to more than one user, and the next call resets
C31_Witness ==
    \E c \in Collections, p \in Procs :
        /\ Acquiring(p, c) /\ proc[p].pc = "reset"
        /\ hist[c].fresh /\ ~hist[c].reset
        /\ hist[c].who = Many
        /\ hist[c].n >= 3

\* ---------------------------------------------------------------- C32
\* C32: whenever an acquire call returns success to a user, the item it
\* returns is in the collection, used and assigned to that user, at the
\* moment of the return, however the call was interleaved with other
\* acquire calls and with deleteItemsByUser
C32_ReturnedItemIsRecorded ==
    \A p \in Procs :
        (Acquired(p) /\ proc[p].res.kind = "ok") =>
            \E k \in DOMAIN store[proc[p].coll] :
                /\ store[proc[p].coll][k].id = proc[p].sel.id
                /\ store[proc[p].coll][k].used
                /\ store[proc[p].coll][k].assignedTo = proc[p].user

\* ---------------------------------------------------------------- C33
\* the items of the collection that the call in slot p did not find when
\* it started
Added(p) ==
    SelectSeq(store[proc[p].coll],
              LAMBDA it : it.id \notin Ids(proc[p].pre))

\* C33: in calls made one at a time, an acquire call that found the
\* collection non-empty leaves it with the same items, and one that found
\* it empty has, once past its seeding, inserted the sample list it was
\* given and nothing else, whatever emptied the collection, and does not
\* fail when that list is not empty; a create call
\* adds only items created by its user, as many as it reports, and no
\* sample item
C33_SeededOnlyWhenEmpty ==
    \A p \in Procs :
        LET me == proc[p]
            now == store[me.coll]
        IN
        /\ (serial /\ me.op = "acquire" /\ me.pre # <<>>) =>
                /\ Len(now) = Len(me.pre)
                /\ Ids(now) = Ids(me.pre)
        /\ (serial /\ me.op = "acquire" /\ me.pre = <<>>
                /\ me.pc # "seed" /\ me.res.kind # "thrown") =>
                /\ Len(now) = Len(me.arg)
                /\ \A k \in DOMAIN now :
                    /\ now[k].createdBy = Null
                    /\ Retrieved(now[k].data) = me.arg[k]
        /\ (serial /\ me.op = "acquire" /\ me.pre = <<>>
                /\ me.arg # <<>>) => me.res.kind # "thrown"
        /\ (serial /\ me.op = "create") =>
                /\ Len(now) = Len(me.pre) + Len(me.ids)
                /\ \A k \in DOMAIN Added(p) :
                    Added(p)[k].createdBy = me.user

\* the collection held only a created item, deleteItemsByUser emptied it,
\* and the acquire call that followed has seeded it and returned an item
C33_Witness ==
    \E p \in Procs :
        /\ serial /\ Acquired(p) /\ proc[p].res.kind = "ok"
        /\ proc[p].pre = <<>>
        /\ store[proc[p].coll] # <<>>
        /\ 1 \notin Ids(store[proc[p].coll])
        /\ \A k \in DOMAIN store[proc[p].coll] :
                store[proc[p].coll][k].createdBy = Null

\* ---------------------------------------------------------------- C34
\* the last call on the class was an initialize whose configuration lacks
\* a field
Incomplete ==
    /\ chatBot.last.op = "initialize"
    /\ \/ chatBot.last.arg.apiKey = ""
       \/ chatBot.last.arg.baseURL = ""
       \/ chatBot.last.arg.model = ""

\* C34: getInstance always hands out the one object the class has
\* constructed; an object is initialized (isInitialized answers true, and
\* the server sees the collaborator as available) exactly when an
\* initialize on it has returned without throwing, and a new object is
\* not; an initialize whose configuration lacks apiKey, baseURL or model
\* throws and leaves every field as it was; a createGameEvent on an
\* uninitialized object throws the not-initialized error and makes no
\* request to the external API
C34_TwoStates ==
    /\ Len(chatBot.objects) <= 1
    /\ chatBot.handed \subseteq {chatBot.instance}
    /\ chatBot.last.op = "getInstance" =>
            chatBot.last.obj = chatBot.instance
    /\ \A o \in DOMAIN chatBot.objects :
            chatBot.objects[o].openaiClient # NoOpenAI
                <=> o \in chatBot.inited
    /\ bot <=> chatBot.inited # {}
    /\ chatBot.last.op = "isInitialized" =>
            (chatBot.last.out = "true" <=>
                chatBot.last.obj \in chatBot.inited)
    /\ Incomplete =>
            /\ chatBot.last.out \in
                    {"MissingApiKey", "MissingBaseURL", "MissingModel"}
            /\ chatBot.objects = chatBot.last.pre
    /\ (/\ chatBot.last.op = "createGameEvent"
        /\ chatBot.last.pre[chatBot.last.obj].openaiClient = NoOpenAI) =>
            /\ chatBot.last.out = "NotInitialized"
            /\ ~chatBot.last.api

\* an initialize without a model has thrown on an object that an earlier
\* initialize had set up, and the object is as that one left it
C34_Witness ==
    /\ Incomplete
    /\ chatBot.last.arg.apiKey # "" /\ chatBot.last.arg.baseURL # ""
    /\ chatBot.last.obj \in chatBot.inited
    /\ chatBot.last.pre[chatBot.last.obj].openaiClient.apiKey
            # chatBot.last.arg.apiKey

====
